---- MODULE Spec2Model ----
(***************************************************************************)
(* A model of the solana-scan service: the block scanner and its cursor    *)
(* (services/blockchain.rs), the instruction classifier and dispatcher     *)
(* (services/blockchain.rs, db/repos.rs, utils/kafka.rs) and the           *)
(* subscription registry (services/websocket.rs,                           *)
(* handlers/websocket_handler.rs).                                         *)
(***************************************************************************)
EXTENDS Integers, Sequences, FiniteSets, TLC

(***************************************************************************)
(* Bounds of the model.                                                    *)
(***************************************************************************)
\* highest slot the chain reaches in SpecScan
MaxSlot == 2
\* largest configured max_concurrent_requests
MaxConcurrent == 2
\* process_transaction calls that can be in progress at once
MaxWorkers == 2
\* process_transaction calls in one behaviour of SpecDispatch
MaxRuns == 2
\* spawned dispatch tasks that can be unfinished at once
MaxTasks == 1
\* socket sessions (each with its own connection id)
MaxConns == 2
\* malformed client frames in one behaviour of SpecRegistry
MaxMalformed == 1

(***************************************************************************)
(* Program constants.                                                      *)
(***************************************************************************)
\* current_slot.saturating_sub(300)
BOOTSTRAP_WINDOW == 300

(***************************************************************************)
(* Option<T>: None is the empty sequence, Some(x) the one-element one.     *)
(***************************************************************************)
None == <<>>
Some(x) == <<x>>
IsSome(o) == o # <<>>
Unwrap(o) == o[1]

VARIABLES
    \* ---- scanner (BlockchainScanner) ----
    max_concurrent_requests, \* the configured concurrency
    scan_status,             \* Option: in-memory ScanStatus.last_scanned_block
    db_scan_status,          \* Option: the persisted scan_status document
    chain_head,              \* the slot get_slot returns
    scan_pc,                 \* "tick_wait" | "scanning" | "stopped" | "cancelled"
    current_slot,            \* scan_blocks: current_slot
    start_slot,              \* scan_blocks: start_slot
    next_slot,               \* next slot the stream iterator yields
    in_flight,               \* slots whose scan_block future is buffered
    slot_state,              \* per slot of the tick: "none" | "inflight" | "done" | "failed"
    rpc_outcome,             \* per slot of the tick: what get_block returned
    \* ---- scanner history (observation only) ----
    retry_pending,           \* slots whose last scan_block failed
    committed_in_tick,       \* update_scan_status ran in this tick
    upsert_failed_in_tick,   \* a store upsert failed in this tick
    tick_parity,             \* number of ticks performed, modulo 2
    last_error,              \* kind of the last error logged by the scanner
    first_fetched,           \* Option: first slot fetched in this tick
    \* ---- classifier, store and dispatcher ----
    watched_addresses,       \* the in-memory watched set
    db_transactions,         \* the persisted transactions collection
    procs,                   \* per worker: the process_transaction call in progress
                             \* (envelope, instruction index, record being inserted)
    tasks,                   \* the spawned dispatch tasks that have not finished
    bus_log,                 \* ids of the records the bus acknowledged
    ws_calls,                \* ids of the records broadcast_transaction was called for
    \* ---- dispatcher history (observation only) ----
    insert_result,           \* per emitted record id: what insert_transaction returned
    emitted,                 \* the records handed to the dispatcher, in order
    runs,                    \* number of process_transaction calls so far
    seen,                    \* signatures of the envelopes process_transaction was given
    \* ---- subscription registry (WebSocketManager) and socket sessions ----
    connections,             \* connection id -> [subscribed_addresses]
    address_subscribers,     \* address -> set of connection ids
    mgr_lock,                \* the RwLock around the WebSocketManager
    conn_lock,               \* the RwLock around connections
    index_lock,              \* the RwLock around address_subscribers
    session_pc,              \* per session: where handle_socket stands
    session_arg,             \* per session: the addresses of the call in progress
    channel,                 \* per session: the frames enqueued on its send channel
    receiver_open,           \* per session: the receiver of its send channel is alive
    broadcasts,              \* number of broadcast_transaction calls so far
    notifying,               \* Option: the last broadcast_transaction call, its
                             \* position and the targets it read from the index
    ignored,                 \* number of client frames that were logged and dropped
    \* ---- control plane: the scanner's public API and the wallet store ----
    db_wallet_addresses,     \* the persisted wallet_addresses: address -> is_active
    api_call                 \* the last public call: what it was given and returned

scanVars == <<max_concurrent_requests, scan_status, db_scan_status, chain_head,
              scan_pc, current_slot, start_slot, next_slot, in_flight,
              slot_state, rpc_outcome>>
scanHist == <<retry_pending, committed_in_tick, upsert_failed_in_tick,
              tick_parity, last_error, first_fetched>>

dispVars == <<watched_addresses, db_transactions, procs, tasks, bus_log, ws_calls>>
dispHist == <<insert_result, emitted, runs, seen>>

regVars == <<connections, address_subscribers, mgr_lock, conn_lock, index_lock,
             session_pc, session_arg, channel>>

notifyVars == <<receiver_open, broadcasts, notifying, ignored>>

ctlVars == <<db_wallet_addresses, api_call>>

\* what the scanner's cursor steps leave alone
otherThanScan == <<dispVars, dispHist, regVars, notifyVars, ctlVars>>
\* what the classifier and the dispatcher leave alone
otherThanDisp == <<scanVars, scanHist, regVars, notifyVars, ctlVars>>
\* what the registry and the socket sessions leave alone
otherThanReg == <<scanVars, scanHist, dispVars, dispHist, notifyVars, ctlVars>>

vars == <<scanVars, scanHist, dispVars, dispHist, regVars, notifyVars, ctlVars>>

(***************************************************************************)
(* Scanner: pure parts.                                                    *)
(***************************************************************************)
\* u64::saturating_sub
SaturatingSub(a, b) == IF a >= b THEN a - b ELSE 0

\* a faulty start_slot: plain subtraction in place of saturating_sub
StartSlotNoSaturation(status, head) ==
    IF IsSome(status) THEN Unwrap(status) + 1 ELSE head - BOOTSTRAP_WINDOW

\* scan_blocks: start_slot
StartSlot(status, head) ==
    IF IsSome(status) THEN Unwrap(status) + 1
    ELSE SaturatingSub(head, BOOTSTRAP_WINDOW)

\* scan_blocks: concurrency
Concurrency(m) == IF m >= 1 THEN m ELSE 1

\* what get_block_with_config can return for a slot
RpcOutcomes == {"block", "block_proc_err", "no_block", "transport_error"}

\* scan_block: the `?` on get_block_with_config propagates every Err (the
\* client returns a block, never an Option, so "no block for this slot" is an
\* Err like a transport failure); errors of process_transaction are logged
\* and the block still returns Ok.
ScanBlock(o) == IF o \in {"block", "block_proc_err"} THEN "Ok" ELSE "Err"

\* update_scan_status: the new in-memory status
NewScanStatus(cur, last_block) == Some(last_block)

\* ScanStatusRepo::update_scan_status: replace_one with upsert
UpsertScanStatus(stored, last_block, db_ok) ==
    IF db_ok THEN Some(last_block) ELSE stored

\* a faulty start_scanning: an Err of scan_blocks leaves the loop (`?`)
LoopPropagatesError(result) == IF result = "Err" THEN "stopped" ELSE "tick_wait"

\* start_scanning: `if let Err(e) = self.scan_blocks().await { error!(..) }`
LoopAfterScanBlocks(result) == "tick_wait"

ErrorKind(o) ==
    CASE o = "block_proc_err" -> "process"
      [] o \in {"no_block", "transport_error"} -> "fetch"
      [] OTHER -> last_error

(***************************************************************************)
(* Scanner: actions.                                                       *)
(***************************************************************************)
\* the chain produces a slot
ChainAdvance ==
    /\ chain_head < MaxSlot
    /\ chain_head' = chain_head + 1
    /\ UNCHANGED <<max_concurrent_requests, scan_status, db_scan_status, scan_pc,
                   current_slot, start_slot, next_slot, in_flight, slot_state,
                   rpc_outcome, scanHist, otherThanScan>>

\* a tick whose get_slot fails: scan_blocks returns Err, the loop logs it
ScanBlocksGetSlotErr ==
    /\ scan_pc = "tick_wait"
    /\ scan_pc' = LoopAfterScanBlocks("Err")
    /\ tick_parity' = 1 - tick_parity
    /\ last_error' = "get_slot"
    /\ UNCHANGED <<max_concurrent_requests, scan_status, db_scan_status, chain_head,
                   current_slot, start_slot, next_slot, in_flight, slot_state,
                   rpc_outcome, retry_pending, committed_in_tick,
                   upsert_failed_in_tick, first_fetched, otherThanScan>>

\* a tick whose get_slot returns head: start_slot, the early return, the stream
ScanBlocksBegin(head) ==
    /\ scan_pc = "tick_wait"
    /\ LET start == StartSlot(scan_status, head) IN
       /\ current_slot' = head
       /\ start_slot' = start
       /\ tick_parity' = 1 - tick_parity
       /\ IF start > head
          THEN /\ scan_pc' = LoopAfterScanBlocks("Ok")
               /\ UNCHANGED <<next_slot, in_flight, slot_state, rpc_outcome,
                              committed_in_tick, upsert_failed_in_tick,
                              first_fetched>>
          ELSE /\ scan_pc' = "scanning"
               /\ next_slot' = start
               /\ in_flight' = {}
               /\ slot_state' = [s \in start..head |-> "none"]
               /\ rpc_outcome' = [s \in start..head |-> "none"]
               /\ committed_in_tick' = FALSE
               /\ upsert_failed_in_tick' = FALSE
               /\ first_fetched' = None
    /\ UNCHANGED <<max_concurrent_requests, scan_status, db_scan_status, chain_head,
                   retry_pending, last_error, otherThanScan>>

\* buffer_unordered takes the next slot of the range while fewer than
\* `concurrency` futures are buffered
FetchStart ==
    /\ scan_pc = "scanning"
    /\ next_slot <= current_slot
    /\ Cardinality(in_flight) < Concurrency(max_concurrent_requests)
    /\ in_flight' = in_flight \cup {next_slot}
    /\ slot_state' = [slot_state EXCEPT ![next_slot] = "inflight"]
    /\ first_fetched' = IF IsSome(first_fetched) THEN first_fetched ELSE Some(next_slot)
    /\ next_slot' = next_slot + 1
    /\ UNCHANGED <<max_concurrent_requests, scan_status, db_scan_status, chain_head,
                   scan_pc, current_slot, start_slot, rpc_outcome, retry_pending,
                   committed_in_tick, upsert_failed_in_tick, tick_parity,
                   last_error, otherThanScan>>

\* one buffered scan_block(slot) completes with outcome o and the for_each
\* closure handles (slot, outcome); db_ok is whether the store upsert succeeds
FetchComplete(slot, o, db_ok) ==
    /\ scan_pc = "scanning"
    /\ slot \in in_flight
    /\ in_flight' = in_flight \ {slot}
    /\ rpc_outcome' = [rpc_outcome EXCEPT ![slot] = o]
    /\ last_error' = ErrorKind(o)
    /\ IF ScanBlock(o) = "Ok"
       THEN /\ db_scan_status' = UpsertScanStatus(db_scan_status, slot, db_ok)
            /\ scan_status' = NewScanStatus(scan_status, slot)
            /\ slot_state' = [slot_state EXCEPT ![slot] = "done"]
            /\ retry_pending' = retry_pending \ {slot}
            /\ committed_in_tick' = TRUE
            /\ upsert_failed_in_tick' = (upsert_failed_in_tick \/ ~db_ok)
       ELSE /\ slot_state' = [slot_state EXCEPT ![slot] = "failed"]
            /\ retry_pending' = retry_pending \cup {slot}
            /\ UNCHANGED <<scan_status, db_scan_status, committed_in_tick,
                           upsert_failed_in_tick>>
    /\ UNCHANGED <<max_concurrent_requests, chain_head, scan_pc, current_slot,
                   start_slot, next_slot, tick_parity, first_fetched, otherThanScan>>

\* the stream is exhausted: scan_blocks returns Ok(())
ScanBlocksEnd ==
    /\ scan_pc = "scanning"
    /\ next_slot > current_slot
    /\ in_flight = {}
    /\ scan_pc' = LoopAfterScanBlocks("Ok")
    /\ UNCHANGED <<max_concurrent_requests, scan_status, db_scan_status, chain_head,
                   current_slot, start_slot, next_slot, in_flight, slot_state,
                   rpc_outcome, scanHist, otherThanScan>>

\* the record of a public call: its arguments (a connection id, an address),
\* what it returned (ok, and the addresses or the transactions), what the
\* store query under it returned, and what add_watched_address or
\* add_connection has been called for so far
Call(op, id, address, ok, addresses, list, store_ok, store_list, added) ==
    [op |-> op, id |-> id, address |-> address, ok |-> ok,
     addresses |-> addresses, list |-> list, store_ok |-> store_ok,
     store_list |-> store_list, added |-> added]

NoCall == Call("none", 0, "", TRUE, {}, <<>>, TRUE, <<>>, {})

\* no public call made yet, no wallet address persisted
CtlIdle ==
    /\ db_wallet_addresses = <<>>
    /\ api_call = NoCall

\* the classifier and the dispatcher as constructed, with nothing watched
DispIdle ==
    /\ CtlIdle
    /\ watched_addresses = {}
    /\ db_transactions = {}
    /\ procs = [w \in 1..MaxWorkers |-> None]
    /\ tasks = {}
    /\ bus_log = {}
    /\ ws_calls = {}
    /\ insert_result = <<>>
    /\ emitted = <<>>
    /\ runs = 0
    /\ seen = {}

Unlocked == [writer |-> 0, readers |-> {}]

\* WebSocketManager::new, and no socket opened yet
RegIdle ==
    /\ connections = <<>>
    /\ address_subscribers = <<>>
    /\ mgr_lock = Unlocked
    /\ conn_lock = Unlocked
    /\ index_lock = Unlocked
    /\ session_pc = [c \in 1..MaxConns |-> "new"]
    /\ session_arg = [c \in 1..MaxConns |-> {}]
    /\ channel = [c \in 1..MaxConns |-> <<>>]
    /\ receiver_open = [c \in 1..MaxConns |-> TRUE]
    /\ broadcasts = 0
    /\ notifying = None
    /\ ignored = 0

ScanHistInit ==
    /\ retry_pending = {}
    /\ committed_in_tick = FALSE
    /\ upsert_failed_in_tick = FALSE
    /\ tick_parity = 0
    /\ last_error = "none"
    /\ first_fetched = None

\* BlockchainScanner::new: the status is loaded from the store
ScanInit ==
    /\ max_concurrent_requests \in 0..MaxConcurrent
    /\ db_scan_status \in {None, Some(0)}
    /\ scan_status = db_scan_status
    /\ chain_head \in 0..1
    /\ scan_pc = "tick_wait"
    /\ current_slot = 0
    /\ start_slot = 0
    /\ next_slot = 0
    /\ in_flight = {}
    /\ slot_state = <<>>
    /\ rpc_outcome = <<>>
    /\ ScanHistInit
    /\ DispIdle
    /\ RegIdle

ScanTick ==
    \/ ScanBlocksGetSlotErr
    \/ ScanBlocksBegin(chain_head)

ScanFetchComplete ==
    \E slot \in in_flight, o \in RpcOutcomes, db_ok \in BOOLEAN :
        FetchComplete(slot, o, db_ok)

ScanNext ==
    \/ ChainAdvance
    \/ ScanTick
    \/ FetchStart
    \/ ScanFetchComplete
    \/ ScanBlocksEnd

SpecScan == ScanInit /\ [][ScanNext]_vars

\* the interval timer fires, buffered futures are polled and every RPC call
\* returns (the client has a timeout), so each enabled scanner step is taken
ScanFairness ==
    /\ WF_vars(ScanTick)
    /\ WF_vars(FetchStart)
    /\ WF_vars(ScanFetchComplete)
    /\ WF_vars(ScanBlocksEnd)

SpecScanFair == SpecScan /\ ScanFairness

(***************************************************************************)
(* Cancellation: main's select returns when one of the three tasks ends    *)
(* and the runtime is dropped, or the process is ended; the scanner task   *)
(* is dropped at whichever await it stands, with the scan_block futures    *)
(* the stream has buffered.  The service is then started again over the    *)
(* same store.                                                             *)
(***************************************************************************)
\* a faulty abort: a slot whose future is dropped is written as the cursor
AbortInFlightCommits(stored, flying) ==
    IF flying = {} THEN stored ELSE Some(CHOOSE s \in flying : TRUE)

\* the persisted scan status once the futures of the slots in `flying` are
\* dropped: update_scan_status is only called on a returned Ok, a dropped
\* future writes nothing
AbortInFlight(stored, flying) == stored

\* the scanner task is dropped while it waits for the timer or for a block
Cancel ==
    /\ scan_pc \in {"tick_wait", "scanning"}
    /\ scan_pc' = "cancelled"
    /\ in_flight' = {}
    /\ db_scan_status' = AbortInFlight(db_scan_status, in_flight)
    /\ UNCHANGED <<max_concurrent_requests, scan_status, chain_head, current_slot,
                   start_slot, next_slot, slot_state, rpc_outcome, scanHist,
                   otherThanScan>>

\* the scanner task is dropped inside update_scan_status(slot), after the
\* store took the upsert and before the in-memory status is written
CancelInUpdate(slot, o) ==
    /\ scan_pc = "scanning"
    /\ slot \in in_flight
    /\ ScanBlock(o) = "Ok"
    /\ scan_pc' = "cancelled"
    /\ in_flight' = {}
    /\ rpc_outcome' = [rpc_outcome EXCEPT ![slot] = o]
    /\ slot_state' = [slot_state EXCEPT ![slot] = "done"]
    /\ db_scan_status' = AbortInFlight(UpsertScanStatus(db_scan_status, slot, TRUE),
                                       in_flight \ {slot})
    /\ UNCHANGED <<max_concurrent_requests, scan_status, chain_head, current_slot,
                   start_slot, next_slot, scanHist, otherThanScan>>

\* the service starts again: BlockchainScanner::new loads the scan status
Restart ==
    /\ scan_pc = "cancelled"
    /\ scan_pc' = "tick_wait"
    /\ scan_status' = db_scan_status
    /\ current_slot' = 0
    /\ start_slot' = 0
    /\ next_slot' = 0
    /\ slot_state' = <<>>
    /\ rpc_outcome' = <<>>
    /\ retry_pending' = {}
    /\ committed_in_tick' = FALSE
    /\ upsert_failed_in_tick' = FALSE
    /\ tick_parity' = 0
    /\ last_error' = "none"
    /\ first_fetched' = None
    /\ UNCHANGED <<max_concurrent_requests, db_scan_status, chain_head, in_flight,
                   otherThanScan>>

ScanCancel ==
    \/ Cancel
    \/ \E slot \in in_flight, o \in RpcOutcomes : CancelInUpdate(slot, o)

ScanCancelNext ==
    \/ ScanNext
    \/ ScanCancel
    \/ Restart

SpecScanCancel == ScanInit /\ [][ScanCancelNext]_vars

(***************************************************************************)
(* The start of a tick on its own: scan status and chain head range over   *)
(* values on both sides of the bootstrap window, and the tick is followed  *)
(* up to its first fetch.                                                  *)
(***************************************************************************)
BootHeads == {0, 1, 299, 300, 301, 302}
BootStatuses == {None, Some(0), Some(299), Some(300), Some(301), Some(400)}

BootInit ==
    /\ max_concurrent_requests \in 0..MaxConcurrent
    /\ db_scan_status \in BootStatuses
    /\ scan_status = db_scan_status
    /\ chain_head \in BootHeads
    /\ scan_pc = "tick_wait"
    /\ current_slot = 0
    /\ start_slot = 0
    /\ next_slot = 0
    /\ in_flight = {}
    /\ slot_state = <<>>
    /\ rpc_outcome = <<>>
    /\ ScanHistInit
    /\ DispIdle
    /\ RegIdle

FirstFetch == next_slot = start_slot /\ FetchStart

BootNext ==
    \/ ScanTick
    \/ FirstFetch

SpecBoot == BootInit /\ [][BootNext]_vars

(***************************************************************************)
(* Claims about the scanner.                                               *)
(***************************************************************************)
CursorLe(a, b) == IsSome(a) => (IsSome(b) /\ Unwrap(a) <= Unwrap(b))

\* C1: last_scanned_block, in memory and in the store, never decreases
\* across scanner steps.
C1_CursorNeverDecreases ==
    [][CursorLe(scan_status, scan_status') /\
       CursorLe(db_scan_status, db_scan_status')]_vars

\* C2: once the scan status was committed in a tick, every slot from the
\* tick's start_slot up to last_scanned_block has completed processing.
C2_CursorIsGapFree ==
    (committed_in_tick /\ IsSome(scan_status)) =>
        \A s \in start_slot..Unwrap(scan_status) :
            s \in DOMAIN slot_state /\ slot_state[s] = "done"

\* C3: the cursor does not advance past a slot whose fetch failed: such a
\* slot stays above last_scanned_block until it is fetched again with success.
C3_FailedSlotStaysAboveCursor ==
    \A s \in retry_pending : IsSome(scan_status) => Unwrap(scan_status) < s

\* C4: a slot for which the node reports no block counts as completed, and a
\* slot whose fetch hit a transport error counts as incomplete with the
\* cursor kept below it.
C4_MissingCompletesTransportBlocks ==
    \A s \in DOMAIN rpc_outcome :
        /\ rpc_outcome[s] = "no_block" => slot_state[s] = "done"
        /\ rpc_outcome[s] = "transport_error" =>
              /\ slot_state[s] = "failed"
              /\ IsSome(scan_status) => Unwrap(scan_status) # s /\ Unwrap(scan_status) <= s

\* C5: the first slot fetched in a tick is max(0, head - 300) when there is
\* no scan status and last_scanned_block + 1 when there is one.
C5_FirstSlotOfTick ==
    (scan_pc = "scanning" /\ IsSome(first_fetched) /\ ~committed_in_tick) =>
        Unwrap(first_fetched) =
            IF IsSome(scan_status) THEN Unwrap(scan_status) + 1
            ELSE IF current_slot >= 300 THEN current_slot - 300 ELSE 0

\* C5 witness: no scan status, head 302: the first slot fetched is 2
C5_Witness ==
    /\ scan_pc = "scanning"
    /\ scan_status = None
    /\ current_slot = 302
    /\ first_fetched = Some(2)

TickAllDone ==
    /\ DOMAIN slot_state = start_slot..current_slot
    /\ start_slot <= current_slot
    /\ \A s \in DOMAIN slot_state : slot_state[s] = "done"

\* C6: after a tick in which every slot of [start_slot, head] was fetched
\* with success (and every upsert succeeded), last_scanned_block equals head.
C6_FullTickCommitsHead ==
    (scan_pc = "tick_wait" /\ TickAllDone /\ ~upsert_failed_in_tick) =>
        /\ scan_status = Some(current_slot)
        /\ db_scan_status = Some(current_slot)

\* C7: the loop never stops on an error: after a failed get_slot, a failed
\* block fetch or a failed processing step, a further tick is performed.
C7_LoopSurvivesErrors ==
    /\ [](scan_pc # "stopped")
    /\ \A p \in {0, 1} :
          (last_error \in {"get_slot", "fetch", "process"} /\ tick_parity = p)
              ~> (tick_parity = 1 - p)

\* C7 witness: a new tick has begun while a slot that failed in an earlier
\* tick is still waiting for its retry
C7_Witness ==
    /\ scan_pc = "scanning"
    /\ first_fetched = None
    /\ retry_pending # {}
    /\ last_error = "fetch"

\* C27: the persisted last_scanned_block is only ever written with a slot
\* whose scan_block has returned Ok, also when a tick is aborted with fetches
\* in flight: every step that changes it, an abort included, sets it to a
\* slot that was in flight and has just completed with success, never to a
\* slot that is unfetched, still in flight, dropped or failed.
C27_CursorCancelSafe ==
    [][db_scan_status' # db_scan_status =>
          \E slot \in in_flight :
              /\ db_scan_status' = Some(slot)
              /\ slot_state'[slot] = "done"
              /\ ScanBlock(rpc_outcome'[slot]) = "Ok"]_vars

\* C27 witness: the tick was aborted while slot 2 was in flight; the
\* persisted cursor is slot 1, whose scan_block had returned Ok
C27_Witness ==
    /\ scan_pc = "cancelled"
    /\ db_scan_status = Some(1)
    /\ DOMAIN slot_state = 1..2
    /\ slot_state[1] = "done"
    /\ slot_state[2] = "inflight"

(***************************************************************************)
(* Classifier, store and dispatcher: the envelopes the node serves.        *)
(***************************************************************************)
Info(src, dst, lamports, amount, decimals, mint) ==
    [source |-> src, destination |-> dst, lamports |-> lamports,
     amount |-> amount, decimals |-> decimals, mint |-> mint]

Parsed(program, type, info) ==
    [kind |-> "parsed", program |-> program, type |-> type, info |-> info]

Meta(fee, err) == Some([fee |-> fee, err |-> err])

\* a system transfer of 2 SOL from A to B
EnvNative ==
    [signatures |-> <<"sigN", "sigN2">>, slot |-> 500, encoding |-> "json_parsed",
     account_keys |-> {"A", "B"},
     instructions |-> <<
        Parsed("system", "transfer",
               Some(Info(Some("A"), Some("B"), Some(2000000000), None, None, None)))>>,
     meta |-> Meta(5000, FALSE)]

\* two transferChecked instructions out of X: one unit of M1, ten of M2
EnvTokens ==
    [signatures |-> <<"sigT">>, slot |-> 501, encoding |-> "json_parsed",
     account_keys |-> {"X", "Y", "Z"},
     instructions |-> <<
        Parsed("spl-token", "transferChecked",
               Some(Info(Some("X"), Some("Y"), None, Some("1"), Some(0), Some("M1")))),
        Parsed("spl-token", "transferChecked",
               Some(Info(Some("X"), Some("Z"), None, Some("10"), Some(0), Some("M2"))))>>,
     meta |-> Meta(5000, FALSE)]

Envelopes == {EnvNative, EnvTokens}

\* an instruction the node could not parse
Raw == [kind |-> "raw", program |-> "", type |-> "", info |-> None]

\* a system transfer out of A in an envelope whose account_keys do not list A
EnvHidden ==
    [signatures |-> <<"sigH">>, slot |-> 502, encoding |-> "json_parsed",
     account_keys |-> {"P", "Q"},
     instructions |-> <<
        Parsed("system", "transfer",
               Some(Info(Some("A"), Some("Q"), Some(1000000000), None, None, None)))>>,
     meta |-> Meta(5000, FALSE)]

\* an envelope that lists A and X and carries: a system transfer between two
\* other accounts, an unparsed instruction, a plain spl-token transfer of 2
\* out of X (its info has no mint and no decimals), a transferChecked of
\* 1000000 at 6 decimals into A, a createAccount, a plain spl-token transfer
\* of 1 out of X, and a transferChecked of 0.9999999999999999 at 0 decimals
EnvMixed ==
    [signatures |-> <<"sigM">>, slot |-> 503, encoding |-> "json_parsed",
     account_keys |-> {"A", "P", "Q", "X"},
     instructions |-> <<
        Parsed("system", "transfer",
               Some(Info(Some("P"), Some("Q"), Some(1000000000), None, None, None))),
        Raw,
        Parsed("spl-token", "transfer",
               Some(Info(Some("X"), Some("P"), None, Some("2"), None, None))),
        Parsed("spl-token-2022", "transferChecked",
               Some(Info(Some("P"), Some("A"), None, Some("1000000"), Some(6), Some("M3")))),
        Parsed("system", "createAccount",
               Some(Info(Some("A"), None, Some(1000000000), None, None, None))),
        Parsed("spl-token", "transfer",
               Some(Info(Some("X"), Some("Q"), None, Some("1"), None, None))),
        Parsed("spl-token", "transferChecked",
               Some(Info(Some("X"), Some("Q"), None, Some("0.9999999999999999"),
                         Some(0), Some("M4"))))>>,
     meta |-> Meta(5000, TRUE)]

\* a system transfer of one lamport from A to B whose meta the node left out
EnvNoMeta ==
    [signatures |-> <<"sigZ">>, slot |-> 504, encoding |-> "json_parsed",
     account_keys |-> {"A", "B"},
     instructions |-> <<
        Parsed("system", "transfer",
               Some(Info(Some("A"), Some("B"), Some(1), None, None, None)))>>,
     meta |-> None]

\* the envelopes the classifier is followed on
ClassifyEnvelopes == Envelopes \cup {EnvHidden, EnvMixed, EnvNoMeta}

\* the watched sets the scanner can have loaded
WatchedSets == {{"A", "X"}, {"B"}}

(***************************************************************************)
(* Classifier: process_transaction.                                        *)
(***************************************************************************)
RECURSIVE Pow10(_)
Pow10(n) == IF n = 0 THEN 1 ELSE 10 * Pow10(n - 1)

\* an f64 amount: the fraction num / den, less `ulp` steps of 2^-53 (the
\* distance between 1.0 and the f64 below it)
Amount(num, den) == [num |-> num, den |-> den, ulp |-> 0]

\* info.amount as an f64: s.parse::<f64>() of a string (v.as_u64() as f64 and
\* v.as_f64() of a number give the same values), 0.0 when it does not parse.
\* The f64 nearest to 0.9999999999999999 is 1 - 2^-53.
ParseF64(s) ==
    CASE s = "1" -> Amount(1, 1)
      [] s = "2" -> Amount(2, 1)
      [] s = "10" -> Amount(10, 1)
      [] s = "1000000" -> Amount(1000000, 1)
      [] s = "0.9999999999999999" -> [num |-> 1, den |-> 1, ulp |-> 1]
      [] OTHER -> Amount(0, 1)

\* amount / 10f64.powi(decimals)
Scaled(amount, decimals) == [amount EXCEPT !.den = @ * Pow10(decimals)]

\* the f64 is exactly 1.0
IsOne(amount) == amount.num = amount.den /\ amount.ulp = 0

\* ui_tx.signatures.get(0).cloned().unwrap_or_default()
Signature(env) == IF Len(env.signatures) > 0 THEN env.signatures[1] ELSE ""

\* a faulty prefilter: every envelope goes on to the instruction loop
InvolvedAlways(env, watched) == TRUE

\* account_keys.iter().any(|k| watched.contains(k))
Involved(env, watched) == env.account_keys \cap watched # {}

\* info.get("source")...unwrap_or("")
FromAddress(info) == IF IsSome(info.source) THEN Unwrap(info.source) ELSE ""

\* a faulty exact filter: the destination is not looked at
ExactFilterFromOnly(from, to, watched) == from \in watched

\* watched.contains(&from) || to.map(|t| watched.contains(t)).unwrap_or(false)
ExactFilter(from, to, watched) ==
    from \in watched \/ (IsSome(to) /\ Unwrap(to) \in watched)

\* meta.map(|m| m.fee as f64).unwrap_or(0.0) / 1e9
FeeSol(meta) ==
    IF IsSome(meta) THEN Amount(Unwrap(meta).fee, Pow10(9)) ELSE Amount(0, Pow10(9))

\* a faulty status: a transaction without meta counts as confirmed
StatusOfAbsentConfirmed(meta) ==
    IF IsSome(meta) /\ Unwrap(meta).err THEN "failed" ELSE "confirmed"

\* meta.map(|m| m.err.is_none()).unwrap_or(false)
StatusOf(meta) ==
    IF IsSome(meta) /\ ~Unwrap(meta).err THEN "confirmed" ELSE "failed"

\* Transaction::new; the id is given when the record is emitted
NewTransaction(signature, slot, type, from, to, amount, mint, meta) ==
    [id |-> 0, signature |-> signature, block_number |-> slot,
     transaction_type |-> type, from_address |-> from, to_address |-> to,
     amount |-> amount, token_mint |-> mint, token_symbol |-> None,
     fee |-> FeeSol(meta), status |-> StatusOf(meta)]

\* a faulty "system" branch: the amount is left in lamports
ClassifyNativeLamports(instr, env, watched) ==
    IF instr.type = "transfer" /\ IsSome(instr.info)
    THEN LET info == Unwrap(instr.info)
             from == FromAddress(info)
             to == info.destination
             lamports == IF IsSome(info.lamports) THEN Unwrap(info.lamports) ELSE 0
         IN IF ExactFilter(from, to, watched)
            THEN Some(NewTransaction(Signature(env), env.slot, "native", from, to,
                                     Amount(lamports, 1), None, env.meta))
            ELSE None
    ELSE None

\* the "system" branch
ClassifyNative(instr, env, watched) ==
    IF instr.type = "transfer" /\ IsSome(instr.info)
    THEN LET info == Unwrap(instr.info)
             from == FromAddress(info)
             to == info.destination
             lamports == IF IsSome(info.lamports) THEN Unwrap(info.lamports) ELSE 0
         IN IF ExactFilter(from, to, watched)
            THEN Some(NewTransaction(Signature(env), env.slot, "native", from, to,
                                     Amount(lamports, Pow10(9)), None, env.meta))
            ELSE None
    ELSE None

\* (amount - 1.0).abs() < f64::EPSILON, with f64::EPSILON = 2^-52: true of
\* 1.0 and of the f64 below it, 1 - 2^-53; a fraction num / den other than 1
\* is further away (den is below 2^31)
NearOne(amount) == amount.num = amount.den /\ amount.ulp \in {0, 1}

\* tx_type: decimals == 0 && (amount - 1.0).abs() < f64::EPSILON
TokenType(decimals, amount) ==
    IF decimals = 0 /\ NearOne(amount) THEN "nft" ELSE "token"

\* the "spl-token" / "spl-token-2022" branch
ClassifySpl(instr, env, watched) ==
    IF instr.type \in {"transfer", "transferChecked"} /\ IsSome(instr.info)
    THEN LET info == Unwrap(instr.info)
             from == FromAddress(info)
             to == info.destination
             raw == IF IsSome(info.amount) THEN ParseF64(Unwrap(info.amount))
                    ELSE Amount(0, 1)
             decimals == IF IsSome(info.decimals) THEN Unwrap(info.decimals) ELSE 0
             amount == IF decimals > 0 THEN Scaled(raw, decimals) ELSE raw
             type == TokenType(decimals, amount)
         IN IF ExactFilter(from, to, watched)
            THEN Some(NewTransaction(Signature(env), env.slot, type, from, to,
                                     amount, info.mint, env.meta))
            ELSE None
    ELSE None

\* one iteration of `for instr in &message.instructions`: the record it emits
ClassifyInstruction(instr, env, watched) ==
    IF instr.kind # "parsed" THEN None
    ELSE IF instr.program = "system" THEN ClassifyNative(instr, env, watched)
    ELSE IF instr.program \in {"spl-token", "spl-token-2022"}
         THEN ClassifySpl(instr, env, watched)
    ELSE None

(***************************************************************************)
(* Store: the transactions collection with its unique signature index.     *)
(***************************************************************************)
\* a faulty store: insert_one with no unique index on signature
InsertWithoutUniqueIndex(db, rec, db_ok) ==
    IF ~db_ok THEN [result |-> "error", db |-> db]
    ELSE [result |-> "ok", db |-> db \cup {rec}]

\* TransactionRepo::insert_transaction under create_indexes' unique index on
\* signature: a second record with a stored signature is refused
InsertTransaction(db, rec, db_ok) ==
    IF ~db_ok THEN [result |-> "error", db |-> db]
    ELSE IF \E r \in db : r.signature = rec.signature
         THEN [result |-> "duplicate", db |-> db]
         ELSE [result |-> "ok", db |-> db \cup {rec}]

\* a faulty hand-over: a record whose insert failed is not dispatched
DispatchAfterInsertOkOnly(result) == result = "ok"

\* process_transaction: `let _ = insert_transaction(..).await;` is followed
\* by dispatch_transaction whatever the insert returned
DispatchAfterInsert(result) == TRUE

\* a faulty order: dispatch_transaction is called as the insert is issued
DispatchWhenIssued(insert_returned) == ~insert_returned

\* dispatch_transaction is the statement after `insert_transaction(..).await`:
\* it is called once the insert has returned, not before
DispatchWhen(insert_returned) == insert_returned

(***************************************************************************)
(* Classifier and dispatcher: actions.                                     *)
(***************************************************************************)
\* a faulty loop: process_transaction returns after its first record
AfterInstructionReturnOnEmit(p, c) ==
    IF ~IsSome(c) /\ p.idx < Len(p.env.instructions)
    THEN Some([p EXCEPT !.idx = p.idx + 1]) ELSE None

\* `for instr in &message.instructions`: on to the next instruction, whether
\* or not this one gave a record c; the call returns after the last one
AfterInstruction(p, c) ==
    IF p.idx < Len(p.env.instructions)
    THEN Some([p EXCEPT !.idx = p.idx + 1]) ELSE None

\* scan_block calls process_transaction for an envelope of the block: the
\* encoding match, the account-key prefilter
ProcessTransactionBegin(w, env) ==
    /\ procs[w] = None
    /\ runs < MaxRuns
    /\ runs' = runs + 1
    /\ seen' = seen \cup {Signature(env)}
    /\ IF env.encoding = "json_parsed" /\ Involved(env, watched_addresses)
          /\ Len(env.instructions) > 0
       THEN procs' = [procs EXCEPT ![w] = Some([env |-> env, idx |-> 1,
                                                pending |-> None])]
       ELSE UNCHANGED procs
    /\ UNCHANGED <<watched_addresses, db_transactions, tasks, bus_log, ws_calls,
                   insert_result, emitted, otherThanDisp>>

\* one instruction of the envelope: classify, filter, insert, dispatch
ProcessInstruction(w, db_ok) ==
    /\ procs[w] # None
    /\ LET p == Unwrap(procs[w])
           c == ClassifyInstruction(p.env.instructions[p.idx], p.env, watched_addresses)
       IN /\ IsSome(c) => Cardinality(tasks) < MaxTasks
          /\ procs' = [procs EXCEPT ![w] = AfterInstruction(p, c)]
          /\ IF IsSome(c)
             THEN LET rec == [Unwrap(c) EXCEPT !.id = Len(emitted) + 1]
                      ins == InsertTransaction(db_transactions, rec, db_ok)
                  IN /\ db_transactions' = ins.db
                     /\ insert_result' = Append(insert_result, ins.result)
                     /\ emitted' = Append(emitted, rec)
                     /\ tasks' = IF DispatchAfterInsert(ins.result)
                                 THEN tasks \cup {[tx |-> rec, pc |-> "kafka"]}
                                 ELSE tasks
             ELSE UNCHANGED <<db_transactions, insert_result, emitted, tasks>>
    /\ UNCHANGED <<watched_addresses, bus_log, ws_calls, runs, seen, otherThanDisp>>

\* dispatch task: kafka.send_transaction(&tx); its result is dropped
TaskSendTransaction(t, acked) ==
    /\ t \in tasks
    /\ t.pc = "kafka"
    /\ bus_log' = IF acked THEN bus_log \cup {t.tx.id} ELSE bus_log
    /\ tasks' = (tasks \ {t}) \cup {[t EXCEPT !.pc = "ws"]}
    /\ UNCHANGED <<watched_addresses, db_transactions, procs, ws_calls,
                   dispHist, otherThanDisp>>

\* dispatch task: ws.read().await.broadcast_transaction(&tx)
TaskBroadcast(t) ==
    /\ t \in tasks
    /\ t.pc = "ws"
    /\ ws_calls' = ws_calls \cup {t.tx.id}
    /\ tasks' = tasks \ {t}
    /\ UNCHANGED <<watched_addresses, db_transactions, procs, bus_log,
                   dispHist, otherThanDisp>>

\* the scanner as constructed and never ticking
ScanIdle ==
    /\ max_concurrent_requests = 1
    /\ db_scan_status = None
    /\ scan_status = None
    /\ chain_head = 0
    /\ scan_pc = "tick_wait"
    /\ current_slot = 0
    /\ start_slot = 0
    /\ next_slot = 0
    /\ in_flight = {}
    /\ slot_state = <<>>
    /\ rpc_outcome = <<>>
    /\ ScanHistInit

DispInit ==
    /\ CtlIdle
    /\ watched_addresses \in WatchedSets
    /\ db_transactions = {}
    /\ procs = [w \in 1..MaxWorkers |-> None]
    /\ tasks = {}
    /\ bus_log = {}
    /\ ws_calls = {}
    /\ insert_result = <<>>
    /\ emitted = <<>>
    /\ runs = 0
    /\ seen = {}
    /\ ScanIdle
    /\ RegIdle

DispProcessBegin ==
    \E w \in 1..MaxWorkers, env \in Envelopes : ProcessTransactionBegin(w, env)

DispProcessInstruction ==
    \E w \in 1..MaxWorkers, db_ok \in BOOLEAN : ProcessInstruction(w, db_ok)

DispSendTransaction ==
    \E t \in tasks, acked \in BOOLEAN : TaskSendTransaction(t, acked)

DispBroadcast ==
    \E t \in tasks : TaskBroadcast(t)

DispNext ==
    \/ DispProcessBegin
    \/ DispProcessInstruction
    \/ DispSendTransaction
    \/ DispBroadcast

SpecDispatch == DispInit /\ [][DispNext]_vars

(***************************************************************************)
(* One scan_block at a time: the envelopes of a block are given to         *)
(* process_transaction one after the other, over a wider set of envelopes, *)
(* with a store and a bus that answer every request.                       *)
(***************************************************************************)
ClassifyBegin == \E env \in ClassifyEnvelopes : ProcessTransactionBegin(1, env)

ClassifyStep == ProcessInstruction(1, TRUE)

ClassifySend == \E t \in tasks : TaskSendTransaction(t, TRUE)

ClassifyNext ==
    \/ ClassifyBegin
    \/ ClassifyStep
    \/ ClassifySend
    \/ DispBroadcast

SpecClassify == DispInit /\ [][ClassifyNext]_vars

(***************************************************************************)
(* The three sinks of one record, step by step: process_transaction is     *)
(* followed across the await of insert_transaction.  One scan_block at a   *)
(* time; the store and the bus may fail.                                   *)
(***************************************************************************)
\* the dispatch task dispatch_transaction spawns for a record
SpawnDispatch(rec) == [tx |-> rec, pc |-> "kafka"]

\* one instruction up to the call of insert_transaction: classify, filter,
\* Transaction::new; an instruction that gives no record is passed over
ProcessInstructionIssue(w) ==
    /\ procs[w] # None
    /\ Unwrap(procs[w]).pending = None
    /\ LET p == Unwrap(procs[w])
           c == ClassifyInstruction(p.env.instructions[p.idx], p.env, watched_addresses)
       IN IF IsSome(c)
          THEN LET rec == [Unwrap(c) EXCEPT !.id = Len(emitted) + 1]
               IN /\ DispatchWhen(FALSE) => Cardinality(tasks) < MaxTasks
                  /\ procs' = [procs EXCEPT ![w] = Some([p EXCEPT !.pending = Some(rec)])]
                  /\ emitted' = Append(emitted, rec)
                  /\ tasks' = IF DispatchWhen(FALSE)
                              THEN tasks \cup {SpawnDispatch(rec)} ELSE tasks
          ELSE /\ procs' = [procs EXCEPT ![w] = AfterInstruction(p, c)]
               /\ UNCHANGED <<emitted, tasks>>
    /\ UNCHANGED <<watched_addresses, db_transactions, bus_log, ws_calls,
                   insert_result, runs, seen, otherThanDisp>>

\* insert_transaction returns: its result is dropped, dispatch_transaction
\* spawns the task, the loop goes on to the next instruction
ProcessInstructionReturn(w, db_ok) ==
    /\ procs[w] # None
    /\ Unwrap(procs[w]).pending # None
    /\ LET p == Unwrap(procs[w])
           rec == Unwrap(p.pending)
           ins == InsertTransaction(db_transactions, rec, db_ok)
           spawn == DispatchWhen(TRUE) /\ DispatchAfterInsert(ins.result)
       IN /\ spawn => Cardinality(tasks) < MaxTasks
          /\ db_transactions' = ins.db
          /\ insert_result' = Append(insert_result, ins.result)
          /\ tasks' = IF spawn THEN tasks \cup {SpawnDispatch(rec)} ELSE tasks
          /\ procs' = [procs EXCEPT ![w] =
                          AfterInstruction([p EXCEPT !.pending = None], Some(rec))]
    /\ UNCHANGED <<watched_addresses, bus_log, ws_calls, emitted, runs, seen,
                   otherThanDisp>>

SinkBegin == \E env \in Envelopes : ProcessTransactionBegin(1, env)

SinkIssue == ProcessInstructionIssue(1)

SinkReturn == \E db_ok \in BOOLEAN : ProcessInstructionReturn(1, db_ok)

SinkNext ==
    \/ SinkBegin
    \/ SinkIssue
    \/ SinkReturn
    \/ DispSendTransaction
    \/ DispBroadcast

SpecSinks == DispInit /\ [][SinkNext]_vars

\* a spawned task is run by the runtime: the bus answers or fails, and the
\* read lock on the registry is granted
SinkFairness == WF_vars(DispSendTransaction) /\ WF_vars(DispBroadcast)

SpecSinksFair == SpecSinks /\ SinkFairness

(***************************************************************************)
(* Claims about the dispatcher and the store.                              *)
(***************************************************************************)
\* C8: a record whose insert failed as a duplicate of a persisted signature
\* is neither published to the bus nor notified to subscribers.
C8_DuplicateIsSuppressed ==
    \A i \in DOMAIN insert_result :
        insert_result[i] = "duplicate" =>
            /\ i \notin bus_log
            /\ i \notin ws_calls

\* C9: no two persisted transactions have the same signature.
C9_SignatureUnique ==
    \A r1, r2 \in db_transactions : r1.signature = r2.signature => r1 = r2

\* C9 witness: the envelope with two matching instructions was processed
\* twice; its first record is stored, the second record of the first pass and
\* both records of the replay were refused as duplicates
C9_Witness ==
    /\ Cardinality(db_transactions) = 1
    /\ Len(insert_result) = 4
    /\ insert_result[1] = "ok"
    /\ \A i \in 2..4 : insert_result[i] = "duplicate" /\ emitted[i].signature = "sigT"

\* C23: for every emitted Transaction the store insert has returned before
\* its bus publish and its subscriber notification start: a record that has a
\* dispatch task, was acknowledged by the bus or was given to the notifier
\* has an insert result.
C23_InsertReturnsBeforeSinks ==
    /\ \A t \in tasks : t.tx.id \in DOMAIN insert_result
    /\ bus_log \cup ws_calls \subseteq DOMAIN insert_result

\* C23 witness: a second record is waiting for its insert to return, with no
\* dispatch task, while the first went through the bus and the notifier
C23_Witness ==
    /\ procs[1] # None
    /\ Unwrap(procs[1]).pending # None
    /\ Unwrap(Unwrap(procs[1]).pending).id = 2
    /\ tasks = {}
    /\ 1 \in bus_log /\ 1 \in ws_calls

\* C24: sink failures are isolated: a record whose insert failed for a
\* reason other than a duplicate signature (or did not fail) goes on to the
\* bus publish and, whether the bus acknowledged it or not, on to the
\* subscriber notification.
C24_SinkFailuresIsolated ==
    <>[](\A i \in DOMAIN insert_result :
            insert_result[i] # "duplicate" => i \in ws_calls)

\* C24 witness: the insert of a record failed on the store, the bus did not
\* acknowledge it, and the notifier was called for it
C24_Witness ==
    \E i \in DOMAIN insert_result :
        /\ insert_result[i] = "error"
        /\ i \notin bus_log
        /\ i \in ws_calls

(***************************************************************************)
(* Subscription registry: WebSocketManager.                                *)
(***************************************************************************)
\* the addresses clients subscribe to
SubAddrs == {"A", "B"}

\* HashMap::insert and HashMap::remove
MapPut(f, k, v) == [x \in DOMAIN f \cup {k} |-> IF x = k THEN v ELSE f[x]]
MapRemove(f, k) == [x \in DOMAIN f \ {k} |-> f[x]]

\* tokio RwLock: write() is granted when nobody holds the lock
CanWrite(l) == l.writer = 0 /\ l.readers = {}

\* a faulty lock: read() is granted while a writer holds the lock
CanReadAlways(l) == TRUE

\* tokio RwLock: read() is granted when no writer holds the lock
CanRead(l) == l.writer = 0
WriteLocked(c) == [writer |-> c, readers |-> {}]

\* add_connection: connections.insert(id, fresh connection)
AddConnection(conns, id) == MapPut(conns, id, [subscribed_addresses |-> {}])

\* subscribe_to_address: connection.subscribed_addresses.insert(address, true)
SubscribeConnections(conns, id, a) ==
    [conns EXCEPT ![id].subscribed_addresses = @ \cup {a}]

\* a faulty subscribe_to_address: the index half is left out
SubscribeIndexSkipped(index, id, a) == index

\* subscribe_to_address: index.entry(addr).or_default().insert(id)
SubscribeIndex(index, id, a) ==
    MapPut(index, a, (IF a \in DOMAIN index THEN index[a] ELSE {}) \cup {id})

\* unsubscribe_from_address: connection.subscribed_addresses.remove(address)
UnsubscribeConnections(conns, id, a) ==
    [conns EXCEPT ![id].subscribed_addresses = @ \ {a}]

\* a faulty index update: the set that became empty stays in the index
UnsubscribeIndexKeepsEmpty(index, id, a) ==
    IF a \in DOMAIN index THEN [index EXCEPT ![a] = @ \ {id}] ELSE index

\* set.remove(id), and index.remove(address) when the set became empty
UnsubscribeIndex(index, id, a) ==
    IF a \in DOMAIN index
    THEN LET set == index[a] \ {id}
         IN IF set = {} THEN MapRemove(index, a) ELSE [index EXCEPT ![a] = set]
    ELSE index

\* a faulty remove_connection: the index is left as it was
RemoveConnectionIndexSkipped(index, id, addrs) == index

\* remove_connection: the loop over conn.subscribed_addresses.keys()
RECURSIVE RemoveConnectionIndex(_, _, _)
RemoveConnectionIndex(index, id, addrs) ==
    IF addrs = {} THEN index
    ELSE LET a == CHOOSE x \in addrs : TRUE
         IN RemoveConnectionIndex(UnsubscribeIndex(index, id, a), id, addrs \ {a})

(***************************************************************************)
(* Socket sessions: handle_socket and handle_websocket_message.  Session c *)
(* owns connection id c (a fresh uuid).  Every `.await` on a lock is a     *)
(* step of its own.                                                        *)
(***************************************************************************)
SessionGoto(c, pc) == session_pc' = [session_pc EXCEPT ![c] = pc]

\* a socket is upgraded: handle_socket starts and asks for the manager
WsUpgrade(c) ==
    /\ session_pc[c] = "new"
    /\ SessionGoto(c, "add_mgr")
    /\ UNCHANGED <<connections, address_subscribers, mgr_lock, conn_lock,
                   index_lock, session_arg, channel, otherThanReg>>

\* ws_manager.write().await, before add_connection, subscribe_to_address,
\* unsubscribe_from_address or remove_connection
AcquireMgr(c, from, to) ==
    /\ session_pc[c] = from
    /\ CanWrite(mgr_lock)
    /\ mgr_lock' = WriteLocked(c)
    /\ SessionGoto(c, to)
    /\ UNCHANGED <<connections, address_subscribers, conn_lock, index_lock,
                   session_arg, channel, otherThanReg>>

AddAcquireMgr(c) == AcquireMgr(c, "add_mgr", "add_conn")
SubAcquireMgr(c) == AcquireMgr(c, "sub_mgr", "sub_conn")
UnsubAcquireMgr(c) == AcquireMgr(c, "unsub_mgr", "unsub_conn")
RmAcquireMgr(c) == AcquireMgr(c, "rm_mgr", "rm_conn")

\* add_connection under the connections write lock; the manager is released
AddConnectionStep(c) ==
    /\ session_pc[c] = "add_conn"
    /\ CanWrite(conn_lock)
    /\ connections' = AddConnection(connections, c)
    /\ mgr_lock' = Unlocked
    /\ SessionGoto(c, "welcome")
    /\ UNCHANGED <<address_subscribers, conn_lock, index_lock, session_arg,
                   channel, otherThanReg>>

\* tx.send(welcome): the receiver is still owned by handle_socket, so the
\* send succeeds; the forwarder is spawned and the receive loop starts
SendWelcome(c) ==
    /\ session_pc[c] = "welcome"
    /\ channel' = [channel EXCEPT ![c] = Append(@, "welcome")]
    /\ SessionGoto(c, "open")
    /\ UNCHANGED <<connections, address_subscribers, mgr_lock, conn_lock,
                   index_lock, session_arg, otherThanReg>>

\* a text frame {"action":"subscribe","address":a}
RecvSubscribe(c, a) ==
    /\ session_pc[c] = "open"
    /\ SessionGoto(c, "sub_mgr")
    /\ session_arg' = [session_arg EXCEPT ![c] = {a}]
    /\ UNCHANGED <<connections, address_subscribers, mgr_lock, conn_lock,
                   index_lock, channel, otherThanReg>>

\* a text frame {"action":"unsubscribe","address":a}
RecvUnsubscribe(c, a) ==
    /\ session_pc[c] = "open"
    /\ SessionGoto(c, "unsub_mgr")
    /\ session_arg' = [session_arg EXCEPT ![c] = {a}]
    /\ UNCHANGED <<connections, address_subscribers, mgr_lock, conn_lock,
                   index_lock, channel, otherThanReg>>

\* error frames enqueued so far, over all sessions
RECURSIVE ErrorFrames(_)
ErrorFrames(q) ==
    IF q = <<>> THEN 0 ELSE (IF Head(q) = "error" THEN 1 ELSE 0) + ErrorFrames(Tail(q))

RECURSIVE SumErrors(_)
SumErrors(cs) ==
    IF cs = {} THEN 0
    ELSE LET c == CHOOSE x \in cs : TRUE
         IN ErrorFrames(channel[c]) + SumErrors(cs \ {c})

Malformed == SumErrors(1..MaxConns)

\* UnboundedSender::send: the frame is enqueued unless the receiver is gone
SendFrame(q, open, frame) == IF open THEN Append(q, frame) ELSE q

\* a text frame that is no WebSocketMessage: an error frame is sent, and the
\* result of the send is dropped
RecvMalformed(c) ==
    /\ session_pc[c] = "open"
    /\ Malformed < MaxMalformed
    /\ channel' = [channel EXCEPT ![c] = SendFrame(@, receiver_open[c], "error")]
    /\ UNCHANGED <<connections, address_subscribers, mgr_lock, conn_lock,
                   index_lock, session_pc, session_arg, otherThanReg>>

\* a text frame that deserializes as a WebSocketMessage (action: String,
\* address: Option<String>) and is no subscribe or unsubscribe message: an
\* action other than the two, or one of the two without an address.
\* handle_websocket_message logs it and returns; nothing is sent
RecvUnhandled(c) ==
    /\ session_pc[c] = "open"
    /\ Malformed + ignored < MaxMalformed
    /\ ignored' = ignored + 1
    /\ UNCHANGED <<regVars, receiver_open, broadcasts, notifying, ctlVars,
                   scanVars, scanHist, dispVars, dispHist>>

\* a close frame, a read error or the end of the stream: the loop is left
RecvClose(c) ==
    /\ session_pc[c] = "open"
    /\ SessionGoto(c, "rm_mgr")
    /\ UNCHANGED <<connections, address_subscribers, mgr_lock, conn_lock,
                   index_lock, session_arg, channel, otherThanReg>>

\* subscribe_to_address, first half: connections.write(), get_mut, insert,
\* drop(connections); Err("Connection not found") releases the manager
SubConnections(c) ==
    /\ session_pc[c] = "sub_conn"
    /\ CanWrite(conn_lock)
    /\ IF c \in DOMAIN connections
       THEN /\ connections' =
                 SubscribeConnections(connections, c, CHOOSE a \in session_arg[c] : TRUE)
            /\ SessionGoto(c, "sub_index")
            /\ UNCHANGED <<mgr_lock, session_arg>>
       ELSE /\ mgr_lock' = Unlocked
            /\ SessionGoto(c, "open")
            /\ session_arg' = [session_arg EXCEPT ![c] = {}]
            /\ UNCHANGED connections
    /\ UNCHANGED <<address_subscribers, conn_lock, index_lock, channel, otherThanReg>>

\* subscribe_to_address, second half: address_subscribers.write(), insert
SubIndex(c) ==
    /\ session_pc[c] = "sub_index"
    /\ CanWrite(index_lock)
    /\ address_subscribers' =
          SubscribeIndex(address_subscribers, c, CHOOSE a \in session_arg[c] : TRUE)
    /\ mgr_lock' = Unlocked
    /\ SessionGoto(c, "open")
    /\ session_arg' = [session_arg EXCEPT ![c] = {}]
    /\ UNCHANGED <<connections, conn_lock, index_lock, channel, otherThanReg>>

\* unsubscribe_from_address, first half
UnsubConnections(c) ==
    /\ session_pc[c] = "unsub_conn"
    /\ CanWrite(conn_lock)
    /\ IF c \in DOMAIN connections
       THEN /\ connections' =
                 UnsubscribeConnections(connections, c, CHOOSE a \in session_arg[c] : TRUE)
            /\ SessionGoto(c, "unsub_index")
            /\ UNCHANGED <<mgr_lock, session_arg>>
       ELSE /\ mgr_lock' = Unlocked
            /\ SessionGoto(c, "open")
            /\ session_arg' = [session_arg EXCEPT ![c] = {}]
            /\ UNCHANGED connections
    /\ UNCHANGED <<address_subscribers, conn_lock, index_lock, channel, otherThanReg>>

\* unsubscribe_from_address, second half
UnsubIndex(c) ==
    /\ session_pc[c] = "unsub_index"
    /\ CanWrite(index_lock)
    /\ address_subscribers' =
          UnsubscribeIndex(address_subscribers, c, CHOOSE a \in session_arg[c] : TRUE)
    /\ mgr_lock' = Unlocked
    /\ SessionGoto(c, "open")
    /\ session_arg' = [session_arg EXCEPT ![c] = {}]
    /\ UNCHANGED <<connections, conn_lock, index_lock, channel, otherThanReg>>

\* remove_connection, first half: connections.write() stays held while the
\* removed connection's addresses are taken out of the index
RmConnections(c) ==
    /\ session_pc[c] = "rm_conn"
    /\ CanWrite(conn_lock)
    /\ IF c \in DOMAIN connections
       THEN /\ connections' = MapRemove(connections, c)
            /\ session_arg' =
                 [session_arg EXCEPT ![c] = connections[c].subscribed_addresses]
            /\ conn_lock' = WriteLocked(c)
            /\ SessionGoto(c, "rm_index")
            /\ UNCHANGED mgr_lock
       ELSE /\ mgr_lock' = Unlocked
            /\ SessionGoto(c, "closed")
            /\ UNCHANGED <<connections, session_arg, conn_lock>>
    /\ UNCHANGED <<address_subscribers, index_lock, channel, otherThanReg>>

\* remove_connection, second half: address_subscribers.write(), the loop;
\* session_arg keeps the addresses the removed connection had
RmIndex(c) ==
    /\ session_pc[c] = "rm_index"
    /\ CanWrite(index_lock)
    /\ address_subscribers' =
          RemoveConnectionIndex(address_subscribers, c, session_arg[c])
    /\ conn_lock' = Unlocked
    /\ mgr_lock' = Unlocked
    /\ SessionGoto(c, "closed")
    /\ UNCHANGED <<connections, index_lock, session_arg, channel, otherThanReg>>

RegInit ==
    /\ RegIdle
    /\ ScanIdle
    /\ DispIdle

\* a step of session c other than the answer to a malformed frame
SessionStep(c) ==
    \/ WsUpgrade(c)
    \/ AddAcquireMgr(c)
    \/ AddConnectionStep(c)
    \/ SendWelcome(c)
    \/ \E a \in SubAddrs : RecvSubscribe(c, a)
    \/ \E a \in SubAddrs : RecvUnsubscribe(c, a)
    \/ RecvClose(c)
    \/ SubAcquireMgr(c)
    \/ SubConnections(c)
    \/ SubIndex(c)
    \/ UnsubAcquireMgr(c)
    \/ UnsubConnections(c)
    \/ UnsubIndex(c)
    \/ RmAcquireMgr(c)
    \/ RmConnections(c)
    \/ RmIndex(c)

RegNext ==
    \E c \in 1..MaxConns :
        \/ SessionStep(c)
        \/ RecvMalformed(c)

\* the sessions of clients that send well-formed frames only
RegSessionsNext == \E c \in 1..MaxConns : SessionStep(c)

SpecRegistry == RegInit /\ [][RegNext]_vars

\* the sessions with every kind of text frame a client can send
FramesNext ==
    \E c \in 1..MaxConns :
        \/ SessionStep(c)
        \/ RecvMalformed(c)
        \/ RecvUnhandled(c)

SpecFrames == RegInit /\ [][FramesNext]_vars

\* a step of the registry call session c is in: the session holds the
\* manager, so at most one session has such a step
CallStep(c) ==
    \/ AddConnectionStep(c)
    \/ SubConnections(c)
    \/ SubIndex(c)
    \/ UnsubConnections(c)
    \/ UnsubIndex(c)
    \/ RmConnections(c)
    \/ RmIndex(c)

\* Scheduling: every session is a tokio task that runs when it can, so the
\* call that holds the manager goes on; the tokio RwLock queues its waiters
\* first-in first-out, so a task waiting for ws_manager.write() gets it once
\* the lock has been free often enough.
RegFairness ==
    /\ WF_vars(\E c \in 1..MaxConns : CallStep(c))
    /\ \A c \in 1..MaxConns : SF_vars(RmAcquireMgr(c))

SpecRegistryFair == RegInit /\ [][RegSessionsNext]_vars /\ RegFairness

(***************************************************************************)
(* Notification: broadcast_transaction, called by a dispatch task through  *)
(* ws.read().await, and the forwarder task that owns the receiver of a     *)
(* session's send channel.                                                 *)
(***************************************************************************)
\* calls of broadcast_transaction in one behaviour of SpecNotify
MaxBroadcasts == 1

\* the transactions the dispatcher notifies: A to B, and out of B with no
\* destination
NotifyTxs ==
    {NewTransaction("sigAB", 500, "native", "A", Some("B"), Amount(1, 1), None, Meta(5000, FALSE)),
     NewTransaction("sigB", 501, "token", "B", None, Amount(1, 1), Some("M1"), Meta(5000, FALSE))}

\* serde_json::to_string(transaction): the frame carries the transaction
Payload(tx) == tx.signature

\* index.get(address): the subscribers of an address, none when it is absent
Subscribers(index, address) ==
    IF address \in DOMAIN index THEN index[address] ELSE {}

\* a faulty broadcast_transaction: every connection is a target
BroadcastTargetsEveryone(index, tx) == 1..MaxConns

\* a faulty broadcast_transaction: the subscribers of to_address are left out
BroadcastTargetsFromOnly(index, tx) == Subscribers(index, tx.from_address)

\* broadcast_transaction: targets, a HashSet of connection ids
BroadcastTargets(index, tx) ==
    Subscribers(index, tx.from_address)
        \cup (IF IsSome(tx.to_address)
              THEN Subscribers(index, Unwrap(tx.to_address)) ELSE {})

\* a faulty loop: a send that fails ends the call before the other targets
BroadcastSendStopOnClosed(conns, chans, open, targets, frame) ==
    IF \E c \in targets \cap DOMAIN conns : ~open[c] THEN chans
    ELSE [c \in DOMAIN chans |->
            IF c \in targets /\ c \in DOMAIN conns
            THEN SendFrame(chans[c], open[c], frame) ELSE chans[c]]

\* broadcast_transaction: the loop over targets; a target that is no longer
\* in connections is skipped and the result of each send is dropped
BroadcastSend(conns, chans, open, targets, frame) ==
    [c \in DOMAIN chans |->
        IF c \in targets /\ c \in DOMAIN conns
        THEN SendFrame(chans[c], open[c], frame) ELSE chans[c]]

\* ws.read().await.broadcast_transaction(&tx): the read lock on the manager
\* is granted when no writer holds it and kept to the end of the call, so no
\* registry call runs between the read of the index and the sends
Broadcast(tx) ==
    /\ broadcasts < MaxBroadcasts
    /\ CanRead(mgr_lock)
    /\ channel' = BroadcastSend(connections, channel, receiver_open,
                                BroadcastTargets(address_subscribers, tx), Payload(tx))
    /\ broadcasts' = broadcasts + 1
    /\ notifying' = Some([tx |-> tx, pc |-> "done",
                          targets |-> BroadcastTargets(address_subscribers, tx)])
    /\ UNCHANGED <<connections, address_subscribers, mgr_lock, conn_lock,
                   index_lock, session_pc, session_arg, receiver_open, ignored,
                   ctlVars, scanVars, scanHist, dispVars, dispHist>>

\* the forwarder task of session c, spawned before the receive loop:
\* forward.send(msg) fails on a dead socket, the task ends and the receiver
\* of the channel is dropped with it (once the connection is removed nothing
\* is sent on the channel any more)
ForwarderStops(c) ==
    /\ session_pc[c] \notin {"new", "add_mgr", "add_conn", "welcome", "closed"}
    /\ receiver_open[c]
    /\ receiver_open' = [receiver_open EXCEPT ![c] = FALSE]
    /\ UNCHANGED <<regVars, broadcasts, notifying, ignored, ctlVars, scanVars,
                   scanHist, dispVars, dispHist>>

NotifySessions == \E c \in 1..MaxConns : SessionStep(c)

NotifyForwarders == \E c \in 1..MaxConns : ForwarderStops(c)

NotifyBroadcast == \E tx \in NotifyTxs : Broadcast(tx)

NotifyNext ==
    \/ NotifySessions
    \/ NotifyForwarders
    \/ NotifyBroadcast

SpecNotify == RegInit /\ [][NotifyNext]_vars

(***************************************************************************)
(* broadcast_transaction lock by lock: the dispatch task takes the read    *)
(* lock on the manager, then address_subscribers.read() for the targets,   *)
(* drops it, then connections.read() for the sends, while the sessions run *)
(* their registry calls.                                                   *)
(***************************************************************************)
\* the dispatch task is the reader 0 of the manager lock
ReadLocked(l) == [l EXCEPT !.readers = @ \cup {0}]

\* a faulty return: the read guard on the manager is never dropped
ReadUnlockedSkipped(l) == l

\* the read guard is dropped
ReadUnlocked(l) == [l EXCEPT !.readers = @ \ {0}]

\* ws.read().await
NotifyAcquireMgr(tx) ==
    /\ broadcasts < MaxBroadcasts
    /\ IF notifying = None THEN TRUE ELSE Unwrap(notifying).pc = "done"
    /\ CanRead(mgr_lock)
    /\ mgr_lock' = ReadLocked(mgr_lock)
    /\ notifying' = Some([tx |-> tx, pc |-> "index", targets |-> {}])
    /\ broadcasts' = broadcasts + 1
    /\ UNCHANGED <<connections, address_subscribers, conn_lock, index_lock,
                   session_pc, session_arg, channel, receiver_open, ignored,
                   ctlVars, scanVars, scanHist, dispVars, dispHist>>

\* address_subscribers.read().await, the targets, drop(index)
NotifyReadIndex ==
    /\ notifying # None
    /\ Unwrap(notifying).pc = "index"
    /\ CanRead(index_lock)
    /\ notifying' = Some([Unwrap(notifying) EXCEPT
                            !.pc = "send",
                            !.targets = BroadcastTargets(address_subscribers,
                                                         Unwrap(notifying).tx)])
    /\ UNCHANGED <<regVars, receiver_open, broadcasts, ignored, ctlVars, scanVars,
                   scanHist, dispVars, dispHist>>

\* connections.read().await, the sends; the call returns and the guard on
\* the manager is dropped
NotifySend ==
    /\ notifying # None
    /\ Unwrap(notifying).pc = "send"
    /\ CanRead(conn_lock)
    /\ channel' = BroadcastSend(connections, channel, receiver_open,
                                Unwrap(notifying).targets,
                                Payload(Unwrap(notifying).tx))
    /\ mgr_lock' = ReadUnlocked(mgr_lock)
    /\ notifying' = Some([Unwrap(notifying) EXCEPT !.pc = "done"])
    /\ UNCHANGED <<connections, address_subscribers, conn_lock, index_lock,
                   session_pc, session_arg, receiver_open, broadcasts, ignored,
                   ctlVars, scanVars, scanHist, dispVars, dispHist>>

ObserveAcquire == \E tx \in NotifyTxs : NotifyAcquireMgr(tx)

ObserveNext ==
    \/ NotifySessions
    \/ ObserveAcquire
    \/ NotifyReadIndex
    \/ NotifySend

SpecObserve == RegInit /\ [][ObserveNext]_vars

\* ws_manager.write().await of session c, before any of its registry calls
WaitMgr(c) ==
    \/ AddAcquireMgr(c)
    \/ SubAcquireMgr(c)
    \/ UnsubAcquireMgr(c)
    \/ RmAcquireMgr(c)

\* Scheduling: the task that holds a lock runs on, sessions and dispatch task
\* alike; the tokio RwLock serves its waiters first-in first-out, so a
\* session that waits for the manager gets it.
ObserveFairness ==
    /\ WF_vars(\E c \in 1..MaxConns : CallStep(c))
    /\ WF_vars(NotifyReadIndex)
    /\ WF_vars(NotifySend)
    /\ \A c \in 1..MaxConns : SF_vars(WaitMgr(c))

SpecObserveFair == SpecObserve /\ ObserveFairness

(***************************************************************************)
(* Control plane: the scanner's public API (add_watched_address,           *)
(* remove_watched_address, get_watched_addresses, get_transactions) over   *)
(* the wallet_addresses and transactions collections.  The handlers call   *)
(* through scanner.read(); add and remove keep the write lock on           *)
(* watched_addresses to their end, so each runs alone.                     *)
(***************************************************************************)
\* the addresses the control plane is asked about
CtlAddrs == {"A", "Q"}

\* WalletAddressRepo::insert_address under the unique index on address
InsertAddress(db, address, db_ok) ==
    IF db_ok /\ address \notin DOMAIN db THEN MapPut(db, address, TRUE) ELSE db

\* WalletAddressRepo::deactivate_address: update_one by address
DeactivateAddress(db, address, db_ok) ==
    IF db_ok /\ address \in DOMAIN db THEN [db EXCEPT ![address] = FALSE] ELSE db

\* WalletAddressRepo::get_all_active_addresses
ActiveAddresses(db) == {a \in DOMAIN db : db[a]}

\* get_watched_addresses: watched.iter().cloned().collect()
GetWatchedAddresses(watched) == watched

\* the transactions collection in insertion order
RECURSIVE InOrder(_)
InOrder(db) ==
    IF db = {} THEN <<>>
    ELSE LET first == CHOOSE r \in db : \A q \in db : r.id <= q.id
         IN <<first>> \o InOrder(db \ {first})

\* options.skip and options.limit
SkipLimit(s, limit, offset) ==
    LET skip == IF IsSome(offset) THEN Unwrap(offset) ELSE 0
        rest == SubSeq(s, skip + 1, Len(s))
    IN IF IsSome(limit) /\ Unwrap(limit) < Len(rest)
       THEN SubSeq(rest, 1, Unwrap(limit)) ELSE rest

\* TransactionRepo::get_transactions: the $or filter on from_address and
\* to_address, skip, limit; Err when the store fails
QueryTransactions(db, address, limit, offset, db_ok) ==
    IF ~db_ok THEN [ok |-> FALSE, list |-> <<>>]
    ELSE LET match(r) == \/ ~IsSome(address)
                         \/ r.from_address = Unwrap(address)
                         \/ r.to_address = address
         IN [ok |-> TRUE,
             list |-> SkipLimit(SelectSeq(InOrder(db), match), limit, offset)]

\* what the scanner's get_transactions answers once the store has answered:
\* `let _ = tx_repo.get_transactions(..).await; Ok(vec![])`
GetTransactionsResult(store) == [ok |-> TRUE, list |-> <<>>]

\* add_watched_address: watched.insert, then `let _ = insert_address(..)`
AddWatchedAddress(a, db_ok) ==
    /\ watched_addresses' = watched_addresses \cup {a}
    /\ db_wallet_addresses' = InsertAddress(db_wallet_addresses, a, db_ok)
    /\ api_call' = Call("add", 0, a, TRUE, {}, <<>>, db_ok, <<>>,
                        api_call.added \cup {a})
    /\ UNCHANGED <<db_transactions, procs, tasks, bus_log, ws_calls, dispHist,
                   scanVars, scanHist, regVars, notifyVars>>

\* remove_watched_address: watched.remove, then `let _ = deactivate_address(..)`
RemoveWatchedAddress(a, db_ok) ==
    /\ watched_addresses' = watched_addresses \ {a}
    /\ db_wallet_addresses' = DeactivateAddress(db_wallet_addresses, a, db_ok)
    /\ api_call' = Call("remove", 0, a, TRUE, {}, <<>>, db_ok, <<>>, api_call.added)
    /\ UNCHANGED <<db_transactions, procs, tasks, bus_log, ws_calls, dispHist,
                   scanVars, scanHist, regVars, notifyVars>>

\* GET /addresses
ListWatchedAddresses ==
    /\ api_call' = Call("list", 0, "", TRUE, GetWatchedAddresses(watched_addresses),
                        <<>>, TRUE, <<>>, api_call.added)
    /\ UNCHANGED <<db_wallet_addresses, dispVars, dispHist, scanVars, scanHist,
                   regVars, notifyVars>>

\* get_transactions(address, limit, offset)
GetTransactions(address, limit, offset, db_ok) ==
    /\ LET store == QueryTransactions(db_transactions, address, limit, offset, db_ok)
           result == GetTransactionsResult(store)
       IN api_call' = Call("get_transactions", 0,
                           IF IsSome(address) THEN Unwrap(address) ELSE "",
                           result.ok, {}, result.list, store.ok, store.list,
                           api_call.added)
    /\ UNCHANGED <<db_wallet_addresses, dispVars, dispHist, scanVars, scanHist,
                   regVars, notifyVars>>

\* a native transfer out of A that an earlier scan persisted
PersistedNative ==
    [Unwrap(ClassifyNative(EnvNative.instructions[1], EnvNative, {"A"}))
        EXCEPT !.id = 1]

\* the scanner as constructed over a store that may hold an address removed
\* earlier and a transaction: new() loads the active addresses
CtlInit ==
    /\ db_wallet_addresses \in {<<>>, MapPut(<<>>, "A", FALSE), MapPut(<<>>, "Q", TRUE)}
    /\ watched_addresses = ActiveAddresses(db_wallet_addresses)
    /\ db_transactions \in {{}, {PersistedNative}}
    /\ api_call = NoCall
    /\ procs = [w \in 1..MaxWorkers |-> None]
    /\ tasks = {}
    /\ bus_log = {}
    /\ ws_calls = {}
    /\ insert_result = <<>>
    /\ emitted = <<>>
    /\ runs = 0
    /\ seen = {}
    /\ ScanIdle
    /\ RegIdle

CtlAdd == \E a \in CtlAddrs, db_ok \in BOOLEAN : AddWatchedAddress(a, db_ok)

CtlRemove == \E a \in CtlAddrs, db_ok \in BOOLEAN : RemoveWatchedAddress(a, db_ok)

CtlGetTransactions ==
    \E address \in {None, Some("A"), Some("Q")}, limit \in {None, Some(1)},
       offset \in {None, Some(1)}, db_ok \in BOOLEAN :
        GetTransactions(address, limit, offset, db_ok)

CtlNext ==
    \/ CtlAdd
    \/ CtlRemove
    \/ ListWatchedAddresses
    \/ CtlGetTransactions

SpecControl == CtlInit /\ [][CtlNext]_vars

(***************************************************************************)
(* The watched set under its lock.  process_transaction takes               *)
(* watched_addresses.read() on entry and keeps the guard to its return;    *)
(* add_watched_address and remove_watched_address take                     *)
(* watched_addresses.write().  The lock is tokio's RwLock: a writer waits  *)
(* for the readers to leave, and readers that come after a waiting writer  *)
(* wait behind it.                                                         *)
(***************************************************************************)
\* a faulty lock: the writer does not wait for the readers
CanWriteWatchedAlways(ps) == TRUE

\* watched_addresses.write() is granted: no process_transaction holds a
\* read guard
CanWriteWatched(ps) == \A w \in DOMAIN ps : ps[w] = None

\* a call of add_watched_address or remove_watched_address waits for the lock
WriteWaiting == api_call.op \in {"add_wait", "remove_wait"}

\* POST /addresses or DELETE /addresses arrives and asks for the write lock
WatchedWriteRequest(op, a) ==
    /\ ~WriteWaiting
    /\ api_call' = Call(op, 0, a, TRUE, {}, <<>>, TRUE, <<>>, api_call.added)
    /\ UNCHANGED <<db_wallet_addresses, dispVars, dispHist, scanVars, scanHist,
                   regVars, notifyVars>>

\* the write lock is granted and the call runs to its end
WatchedWriteGranted(db_ok) ==
    /\ WriteWaiting
    /\ CanWriteWatched(procs)
    /\ IF api_call.op = "add_wait"
       THEN AddWatchedAddress(api_call.address, db_ok)
       ELSE RemoveWatchedAddress(api_call.address, db_ok)

\* scan_block calls process_transaction, which is granted the read lock
SnapshotBegin ==
    /\ ~WriteWaiting
    /\ \E w \in 1..MaxWorkers, env \in Envelopes : ProcessTransactionBegin(w, env)

SnapshotStep == \E w \in 1..MaxWorkers : ProcessInstruction(w, TRUE)

SnapshotRequest ==
    \E op \in {"add_wait", "remove_wait"}, a \in CtlAddrs : WatchedWriteRequest(op, a)

SnapshotGranted == WatchedWriteGranted(TRUE)

SnapshotNext ==
    \/ SnapshotBegin
    \/ SnapshotStep
    \/ ClassifySend
    \/ DispBroadcast
    \/ SnapshotRequest
    \/ SnapshotGranted

SpecSnapshot == DispInit /\ [][SnapshotNext]_vars

(***************************************************************************)
(* The registry's public methods called with any connection id.  Every     *)
(* caller holds ws_manager.write() for the whole call, so a call runs      *)
(* alone; a connection id is a fresh uuid, so none is added twice.         *)
(***************************************************************************)
\* a faulty subscribe_to_address: the index is updated for an unknown id too
SubscribeToAddressUnchecked(conns, index, id, a) ==
    [ok |-> id \in DOMAIN conns,
     conns |-> IF id \in DOMAIN conns THEN SubscribeConnections(conns, id, a) ELSE conns,
     index |-> SubscribeIndex(index, id, a)]

\* subscribe_to_address: Err("Connection not found") for an unknown id
SubscribeToAddress(conns, index, id, a) ==
    IF id \in DOMAIN conns
    THEN [ok |-> TRUE, conns |-> SubscribeConnections(conns, id, a),
          index |-> SubscribeIndex(index, id, a)]
    ELSE [ok |-> FALSE, conns |-> conns, index |-> index]

\* unsubscribe_from_address
UnsubscribeFromAddress(conns, index, id, a) ==
    IF id \in DOMAIN conns
    THEN [ok |-> TRUE, conns |-> UnsubscribeConnections(conns, id, a),
          index |-> UnsubscribeIndex(index, id, a)]
    ELSE [ok |-> FALSE, conns |-> conns, index |-> index]

\* remove_connection
RemoveConnection(conns, index, id) ==
    IF id \in DOMAIN conns
    THEN [conns |-> MapRemove(conns, id),
          index |-> RemoveConnectionIndex(index, id, conns[id].subscribed_addresses)]
    ELSE [conns |-> conns, index |-> index]

\* what a registry call leaves alone
ApiUnchanged ==
    UNCHANGED <<mgr_lock, conn_lock, index_lock, session_pc, session_arg, channel,
                notifyVars, db_wallet_addresses, scanVars, scanHist, dispVars,
                dispHist>>

ApiAddConnection(id) ==
    /\ id \notin api_call.added
    /\ connections' = AddConnection(connections, id)
    /\ UNCHANGED address_subscribers
    /\ api_call' = Call("add_connection", id, "", TRUE, {}, <<>>, TRUE, <<>>,
                        api_call.added \cup {id})
    /\ ApiUnchanged

ApiSubscribe(id, a) ==
    /\ LET r == SubscribeToAddress(connections, address_subscribers, id, a)
       IN /\ connections' = r.conns
          /\ address_subscribers' = r.index
          /\ api_call' = Call("subscribe", id, a, r.ok, {}, <<>>, TRUE, <<>>,
                              api_call.added)
    /\ ApiUnchanged

ApiUnsubscribe(id, a) ==
    /\ LET r == UnsubscribeFromAddress(connections, address_subscribers, id, a)
       IN /\ connections' = r.conns
          /\ address_subscribers' = r.index
          /\ api_call' = Call("unsubscribe", id, a, r.ok, {}, <<>>, TRUE, <<>>,
                              api_call.added)
    /\ ApiUnchanged

ApiRemoveConnection(id) ==
    /\ LET r == RemoveConnection(connections, address_subscribers, id)
       IN /\ connections' = r.conns
          /\ address_subscribers' = r.index
    /\ api_call' = Call("remove_connection", id, "", TRUE, {}, <<>>, TRUE, <<>>,
                        api_call.added)
    /\ ApiUnchanged

ApiNext ==
    \E id \in 1..MaxConns :
        \/ ApiAddConnection(id)
        \/ \E a \in SubAddrs : ApiSubscribe(id, a)
        \/ \E a \in SubAddrs : ApiUnsubscribe(id, a)
        \/ ApiRemoveConnection(id)

SpecRegistryApi == RegInit /\ [][ApiNext]_vars

(***************************************************************************)
(* Claims about the subscription registry.                                 *)
(***************************************************************************)
InIndex(id, a) == a \in DOMAIN address_subscribers /\ id \in address_subscribers[a]

InConnection(id, a) ==
    id \in DOMAIN connections /\ a \in connections[id].subscribed_addresses

\* C10: whenever no registry call is in progress, a connection id is in
\* address_subscribers[A] exactly when A is in the connection's
\* subscribed_addresses.
C10_DualIndexConsistent ==
    mgr_lock.writer = 0 =>
        \A id \in 1..MaxConns, a \in SubAddrs : InIndex(id, a) <=> InConnection(id, a)

\* C10 witness: after a subscribe and an unsubscribe of connection 1 and a
\* subscribe of connection 2 that was then removed, both maps agree
C10_Witness ==
    /\ mgr_lock.writer = 0
    /\ session_pc[2] = "closed"
    /\ InIndex(1, "A") /\ InConnection(1, "A")
    /\ ~InIndex(1, "B") /\ ~InConnection(1, "B")
    /\ "B" \notin DOMAIN address_subscribers

\* the session of connection id has left its receive loop
SessionEnded(id) == session_pc[id] \in {"rm_mgr", "rm_conn", "rm_index", "closed"}

\* id is in neither map
Absent(id) ==
    /\ id \notin DOMAIN connections
    /\ \A a \in DOMAIN address_subscribers : id \notin address_subscribers[a]

\* C11: when a socket session ends, remove_connection is eventually executed
\* for its id, and from then on the id is in neither connections nor any set
\* of address_subscribers, whatever it had subscribed to.
\* (a session that has ended stays ended, so this is: from some point on,
\* the ended session has returned from remove_connection and id is absent.)
C11_EndedSessionIsRemoved ==
    \A id \in 1..MaxConns :
        <>[](SessionEnded(id) => session_pc[id] = "closed" /\ Absent(id))

\* C11 witness: connection 1 was removed while subscribed to both addresses,
\* and connection 2 is still subscribed to one of them
C11_Witness ==
    /\ session_pc[1] = "closed"
    /\ session_arg[1] = SubAddrs
    /\ Absent(1)
    /\ InIndex(2, "A")

\* the connection is subscribed to the sender or to the receiver of tx
SubscribedTo(id, tx) ==
    \/ InConnection(id, tx.from_address)
    \/ IsSome(tx.to_address) /\ InConnection(id, Unwrap(tx.to_address))

\* C12 as stated: a call of broadcast_transaction enqueues exactly one frame
\* on the send channel of every connection subscribed to from_address or to
\* to_address, and nothing on any other connection.
C12_NotifyReachesSubscribers ==
    [][\A tx \in NotifyTxs :
         Broadcast(tx) =>
            \A c \in 1..MaxConns :
                channel'[c] = IF SubscribedTo(c, tx)
                              THEN Append(channel[c], Payload(tx)) ELSE channel[c]]_vars

\* C12 amended: a call of broadcast_transaction enqueues exactly one frame on
\* the send channel of every connection that is subscribed to from_address
\* or to to_address and whose channel still has its receiver, and nothing on
\* any other connection.
C12_NotifyReachesOpenSubscribers ==
    [][\A tx \in NotifyTxs :
         Broadcast(tx) =>
            \A c \in 1..MaxConns :
                channel'[c] = IF SubscribedTo(c, tx) /\ receiver_open[c]
                              THEN Append(channel[c], Payload(tx)) ELSE channel[c]]_vars

\* C12 witness: the transaction out of B was broadcast; connection 1,
\* subscribed to both addresses, has one frame of it and connection 2,
\* subscribed to A only, has none
C12_Witness ==
    /\ broadcasts = 1
    /\ InConnection(1, "A") /\ InConnection(1, "B")
    /\ InConnection(2, "A") /\ ~InConnection(2, "B")
    /\ channel[1] = <<"welcome", "sigB">>
    /\ channel[2] = <<"welcome">>

\* both maps agree on every connection and address
DualIndexAgrees ==
    \A id \in 1..MaxConns, a \in SubAddrs : InIndex(id, a) <=> InConnection(id, a)

\* C25: a notify that runs while sessions subscribe, unsubscribe and are
\* removed observes no half-applied change: at each of its two reads both
\* maps agree, and the targets it read from address_subscribers are the
\* connections that connections shows subscribed when it sends.
C25_ReaderSeesWholeMutations ==
    [][/\ NotifyReadIndex \/ NotifySend => DualIndexAgrees
       /\ NotifySend =>
             LET n == Unwrap(notifying)
             IN \A id \in 1..MaxConns :
                   id \in n.targets <=>
                      \/ InConnection(id, n.tx.from_address)
                      \/ /\ IsSome(n.tx.to_address)
                         /\ InConnection(id, Unwrap(n.tx.to_address))]_vars

\* C25 witness: the notify has read its targets, connection 1 among them,
\* and has not yet read connections, while connection 2 waits for the
\* manager to subscribe
C25_Witness ==
    /\ notifying # None
    /\ Unwrap(notifying).pc = "send"
    /\ 1 \in Unwrap(notifying).targets
    /\ session_pc[2] = "sub_mgr"

\* C26: when notify finds the send channel of a target closed, that delivery
\* is dropped, every other target has the frame enqueued, the call returns,
\* and both registry maps are left as they were.
C26_ClosedChannelIsSkipped ==
    [][\A tx \in NotifyTxs :
         Broadcast(tx) =>
            /\ connections' = connections
            /\ address_subscribers' = address_subscribers
            /\ notifying' # None /\ Unwrap(notifying').pc = "done"
            /\ \A c \in 1..MaxConns :
                  channel'[c] =
                     IF c \in BroadcastTargets(address_subscribers, tx)
                        /\ c \in DOMAIN connections /\ receiver_open[c]
                     THEN Append(channel[c], Payload(tx)) ELSE channel[c]]_vars

\* C26 witness: connections 1 and 2 were the targets of a notify; the
\* channel of 1 was closed and got nothing, 2 has the frame, and 1 is still
\* in both maps
C26_Witness ==
    /\ notifying # None
    /\ Unwrap(notifying).targets = {1, 2}
    /\ ~receiver_open[1] /\ receiver_open[2]
    /\ channel[1] = <<"welcome">>
    /\ channel[2] = <<"welcome", Payload(Unwrap(notifying).tx)>>
    /\ 1 \in DOMAIN connections
    /\ \E a \in SubAddrs : InIndex(1, a)

\* session c is in a registry call or waits for the manager to make one
InCall(c) ==
    session_pc[c] \in {"add_mgr", "add_conn", "sub_mgr", "sub_conn", "sub_index",
                       "unsub_mgr", "unsub_conn", "unsub_index",
                       "rm_mgr", "rm_conn", "rm_index"}

\* C29: the only call that holds both locks, remove_connection, has the
\* connections lock when it takes the address_subscribers lock, and no call
\* takes the connections lock while the address_subscribers lock is held; the
\* concurrent notify, subscribe, unsubscribe, add_connection and
\* remove_connection calls do not block one another for ever: each returns.
C29_LockOrderAndProgress ==
    /\ [][/\ \A c \in 1..MaxConns :
               /\ RmIndex(c) => conn_lock.writer = c
               /\ (AddConnectionStep(c) \/ SubConnections(c) \/ UnsubConnections(c)
                       \/ RmConnections(c)) => index_lock = Unlocked
          /\ NotifySend => index_lock = Unlocked]_vars
    /\ \A c \in 1..MaxConns : []<>(~InCall(c))
    /\ []<>(notifying = None \/ Unwrap(notifying).pc = "done")

\* C29 witness: connection 1 is in remove_connection with the connections
\* lock held, about to take the address_subscribers lock, while connection 2
\* waits for the manager to subscribe and a notify has returned
C29_Witness ==
    /\ session_pc[1] = "rm_index" /\ conn_lock.writer = 1
    /\ session_pc[2] = "sub_mgr"
    /\ notifying # None /\ Unwrap(notifying).pc = "done"

\* C30: a client text frame that is no subscribe or unsubscribe message
\* causes exactly one error frame to be enqueued on the send channel of its
\* own connection and on no other, leaves both registry maps unchanged and
\* leaves the session in its receive loop.
C30_BadFrameGetsOneErrorFrame ==
    [][\A c \in 1..MaxConns :
         RecvMalformed(c) \/ RecvUnhandled(c) =>
            /\ channel' = [channel EXCEPT ![c] = Append(@, "error")]
            /\ connections' = connections
            /\ address_subscribers' = address_subscribers
            /\ session_pc'[c] = "open"]_vars

(***************************************************************************)
(* Claims about the classifier.                                            *)
(***************************************************************************)
\* the envelope a record was made from (signatures are one per envelope)
EnvelopeOf(rec) == CHOOSE env \in ClassifyEnvelopes : Signature(env) = rec.signature

\* every record the classifier has made, wherever it is now
AllRecords ==
    {emitted[i] : i \in DOMAIN emitted} \cup db_transactions \cup {t.tx : t \in tasks}

\* C13: for an envelope none of whose account_keys is watched the classifier
\* emits nothing: no record of it is handed to the dispatcher, persisted,
\* published or notified, whatever its instructions contain.
C13_UnwatchedEnvelopeEmitsNothing ==
    /\ \A rec \in AllRecords :
          EnvelopeOf(rec).account_keys \cap watched_addresses # {}
    /\ bus_log \cup ws_calls \subseteq DOMAIN emitted

\* C13 witness: with A watched, the envelope whose only instruction moves
\* funds out of A but whose account_keys do not list A was processed, and
\* nothing was emitted
C13_Witness ==
    /\ "A" \in watched_addresses
    /\ seen = {"sigH"}
    /\ procs[1] = None
    /\ emitted = <<>> /\ db_transactions = {} /\ tasks = {}

\* the instruction process_transaction is about to look at
CurrentInstruction == Unwrap(procs[1]).env.instructions[Unwrap(procs[1]).idx]

\* a parsed native or SPL transfer instruction
IsTransferInstruction(instr) ==
    /\ instr.kind = "parsed"
    /\ \/ instr.program = "system" /\ instr.type = "transfer"
       \/ /\ instr.program \in {"spl-token", "spl-token-2022"}
          /\ instr.type \in {"transfer", "transferChecked"}

\* the addresses of a transfer instruction that are watched
WatchedParties(instr, watched) ==
    IF IsSome(instr.info)
    THEN LET info == Unwrap(instr.info)
         IN ((IF IsSome(info.source) THEN {Unwrap(info.source)} ELSE {})
             \cup (IF IsSome(info.destination) THEN {Unwrap(info.destination)} ELSE {}))
            \cap watched
    ELSE {}

\* C14: in an envelope that passed the account-key prefilter, a transfer
\* instruction (native or SPL) yields an emitted Transaction if and only if
\* its from_address or its to_address is in the watched set.
C14_EmittedIffPartyWatched ==
    [][ClassifyStep /\ IsTransferInstruction(CurrentInstruction) =>
          (emitted' # emitted <=>
              WatchedParties(CurrentInstruction, watched_addresses) # {})]_vars

\* C14 witness: with A and X watched the mixed envelope was processed: the
\* transfer between P and Q gave nothing, the transfer out of X and the
\* transfer into A gave a record each
C14_Witness ==
    /\ watched_addresses = {"A", "X"}
    /\ seen = {"sigM"}
    /\ procs[1] = None
    /\ Len(emitted) = 4
    /\ emitted[1].from_address = "X" /\ emitted[1].to_address = Some("P")
    /\ emitted[2].from_address = "P" /\ emitted[2].to_address = Some("A")

\* C15: an SPL transfer or transferChecked instruction is classified nft if
\* and only if its decimals are 0 and its scaled amount equals 1, and token
\* otherwise.
C15_NftIffZeroDecimalsAndOne ==
    [][ClassifyStep /\ emitted' # emitted
         /\ CurrentInstruction.program \in {"spl-token", "spl-token-2022"} =>
          LET info == Unwrap(CurrentInstruction.info)
              decimals == IF IsSome(info.decimals) THEN Unwrap(info.decimals) ELSE 0
              rec == emitted'[Len(emitted')]
          IN /\ rec.transaction_type \in {"nft", "token"}
             /\ rec.transaction_type = "nft" <=> (decimals = 0 /\ IsOne(rec.amount))]_vars

\* C16: every emitted Transaction of type nft has token_mint set and amount 1,
\* and every emitted Transaction of type token has token_mint set.
C16_TokenRecordsHaveMint ==
    \A i \in DOMAIN emitted :
        /\ emitted[i].transaction_type = "nft" =>
              IsSome(emitted[i].token_mint) /\ IsOne(emitted[i].amount)
        /\ emitted[i].transaction_type = "token" => IsSome(emitted[i].token_mint)

\* the parties of the transfer instructions among the first n of env that
\* have a watched party, in the order of the envelope
RECURSIVE MatchingUpTo(_, _, _)
MatchingUpTo(env, watched, n) ==
    IF n = 0 THEN <<>>
    ELSE LET instr == env.instructions[n]
             prev == MatchingUpTo(env, watched, n - 1)
         IN IF IsTransferInstruction(instr) /\ WatchedParties(instr, watched) # {}
            THEN Append(prev, [from |-> Unwrap(instr.info).source,
                               to |-> Unwrap(instr.info).destination])
            ELSE prev

\* the records emitted for an envelope, as the parties of each
PartiesEmittedOf(env) ==
    LET s == SelectSeq(emitted, LAMBDA r : r.signature = Signature(env))
    IN [i \in DOMAIN s |-> [from |-> Some(s[i].from_address), to |-> s[i].to_address]]

\* how many instructions of env process_transaction has gone through
InstructionsDone(env) ==
    IF env.account_keys \cap watched_addresses = {} THEN 0
    ELSE IF IsSome(procs[1]) /\ Unwrap(procs[1]).env = env THEN Unwrap(procs[1]).idx - 1
    ELSE IF Signature(env) \in seen THEN Len(env.instructions)
    ELSE 0

\* C17: an envelope with k transfer instructions that have a watched party
\* gives k records, one per such instruction, handed to the dispatcher in the
\* order of the instructions (stated of envelopes processed once).
C17_OneRecordPerInstructionInOrder ==
    Cardinality(seen) = runs =>
        \A env \in ClassifyEnvelopes :
            PartiesEmittedOf(env) =
                MatchingUpTo(env, watched_addresses, InstructionsDone(env))

\* C17 witness: the envelope with two transferChecked instructions out of X,
\* of 1 and of 10 at 0 decimals, gave an nft record and then a token record
C17_Witness ==
    /\ seen = {"sigT"}
    /\ procs[1] = None
    /\ Len(emitted) = 2
    /\ emitted[1].transaction_type = "nft" /\ emitted[1].to_address = Some("Y")
    /\ emitted[2].transaction_type = "token" /\ emitted[2].to_address = Some("Z")

\* C21: a parsed system transfer instruction whose source or destination is
\* watched yields a Transaction of type native with no token_mint, from and to
\* taken from info.source and info.destination, block_number the scanned
\* slot, signature the first signature of the envelope, and amount
\* info.lamports / 10^9.
C21_NativeTransferRecord ==
    [][/\ ClassifyStep
       /\ CurrentInstruction.kind = "parsed"
       /\ CurrentInstruction.program = "system"
       /\ CurrentInstruction.type = "transfer"
       /\ WatchedParties(CurrentInstruction, watched_addresses) # {}
       => /\ Len(emitted') = Len(emitted) + 1
          /\ LET rec == emitted'[Len(emitted')]
                 env == Unwrap(procs[1]).env
                 info == Unwrap(CurrentInstruction.info)
             IN /\ rec.transaction_type = "native"
                /\ rec.token_mint = None
                /\ Some(rec.from_address) = info.source
                /\ rec.to_address = info.destination
                /\ rec.block_number = env.slot
                /\ rec.signature = env.signatures[1]
                /\ rec.amount.num = Unwrap(info.lamports)
                /\ rec.amount.den = 1000000000
                /\ rec.amount.ulp = 0]_vars

\* C21 witness: with A watched, the transfer of 2000000000 lamports from A to
\* B at slot 500, signed "sigN" and "sigN2", gave a native record of 2 SOL
C21_Witness ==
    /\ "A" \in watched_addresses
    /\ \E i \in DOMAIN emitted :
          /\ emitted[i].signature = "sigN"
          /\ emitted[i].block_number = 500
          /\ emitted[i].transaction_type = "native"
          /\ emitted[i].amount = [num |-> 2000000000, den |-> 1000000000, ulp |-> 0]

\* C22: every emitted Transaction has status confirmed if and only if its
\* envelope has a meta whose err is null, and failed otherwise (a transaction
\* without meta has no null err to show); its fee is meta.fee / 10^9 when the
\* meta is present and 0 when it is absent.
C22_StatusAndFee ==
    \A i \in DOMAIN emitted :
        LET meta == EnvelopeOf(emitted[i]).meta
        IN /\ emitted[i].status \in {"confirmed", "failed"}
           /\ emitted[i].status = "confirmed" <=> (IsSome(meta) /\ ~Unwrap(meta).err)
           /\ emitted[i].fee.den = 1000000000 /\ emitted[i].fee.ulp = 0
           /\ emitted[i].fee.num = IF IsSome(meta) THEN Unwrap(meta).fee ELSE 0

\* C22 witness: a record of the envelope without meta (failed, fee 0) and a
\* record of the envelope whose meta carries an err (failed, fee 5000
\* lamports) were emitted
C22_Witness ==
    \E i, j \in DOMAIN emitted :
        /\ emitted[i].signature = "sigZ" /\ emitted[i].status = "failed"
        /\ emitted[i].fee.num = 0
        /\ emitted[j].signature = "sigM" /\ emitted[j].status = "failed"
        /\ emitted[j].fee.num = 5000

\* C28: the classification of one envelope uses one snapshot of the watched
\* set: an add_watched or remove_watched issued meanwhile takes effect before
\* the prefilter of an envelope or after its last instruction, so the set
\* changes in no step that starts or ends inside a classification.
C28_WatchedSnapshotPerEnvelope ==
    [][watched_addresses' # watched_addresses =>
          \A w \in 1..MaxWorkers : procs[w] = None /\ procs'[w] = None]_vars

\* C28 witness: with B watched, add_watched(A) waits for the lock while the
\* transfer from A to B is being classified on one worker; A is not watched
\* yet, and a record of an envelope classified earlier was emitted
C28_Witness ==
    /\ api_call.op = "add_wait" /\ api_call.address = "A"
    /\ watched_addresses = {"B"}
    /\ \E w \in 1..MaxWorkers :
          /\ procs[w] # None
          /\ Signature(Unwrap(procs[w]).env) = "sigN"
    /\ Len(emitted) = 1

(***************************************************************************)
(* Claims about the control plane.                                         *)
(***************************************************************************)
\* C18: after add_watched(a) the watched addresses contain a; after a
\* following remove_watched(a) they do not contain a and the persisted
\* wallet record of a has is_active = false.
C18_AddThenRemove ==
    LET a == api_call.address
    IN /\ api_call.op = "add" => a \in GetWatchedAddresses(watched_addresses)
       /\ api_call.op = "remove" /\ a \in api_call.added =>
             /\ a \notin GetWatchedAddresses(watched_addresses)
             /\ a \in DOMAIN db_wallet_addresses
             /\ ~db_wallet_addresses[a]

\* C19: get_transactions(address, limit, offset) returns the list the store
\* query returns for those arguments, and an error when the store query
\* fails.
C19_GetTransactionsIsStoreQuery ==
    api_call.op = "get_transactions" =>
        /\ api_call.ok = api_call.store_ok
        /\ api_call.list = api_call.store_list

\* C20: subscribe(id, address) with an id that is not registered (never
\* added, or already removed) returns an error and leaves both registry maps
\* as they were; after it, id is in no set of address_subscribers.
C20_SubscribeUnknownIdFails ==
    [][\A id \in 1..MaxConns, a \in SubAddrs :
         ApiSubscribe(id, a) /\ id \notin DOMAIN connections =>
            /\ ~api_call'.ok
            /\ connections' = connections
            /\ address_subscribers' = address_subscribers
            /\ \A x \in DOMAIN address_subscribers' : id \notin address_subscribers'[x]]_vars

\* C20 witness: connection 1 was added and removed, then asked to subscribe
\* to A, to which connection 2 is subscribed: the call failed and 1 is in
\* neither map
C20_Witness ==
    /\ api_call.op = "subscribe" /\ api_call.id = 1 /\ api_call.address = "A"
    /\ ~api_call.ok
    /\ 1 \in api_call.added
    /\ Absent(1)
    /\ InIndex(2, "A") /\ InConnection(2, "A")

(***************************************************************************)
(* The watched set and its persisted copy over a store that answers every  *)
(* request: add_watched_address and remove_watched_address as above with   *)
(* the store healthy, and a restart, where BlockchainScanner::new builds a *)
(* scanner with an empty watched set and load_watched_addresses inserts    *)
(* the address of every record with is_active = true.                      *)
(***************************************************************************)
\* load_watched_addresses on a scanner just constructed
LoadWatchedAddresses ==
    /\ watched_addresses' = {} \cup ActiveAddresses(db_wallet_addresses)
    /\ api_call' = Call("load", 0, "", TRUE, {}, <<>>, TRUE, <<>>, api_call.added)
    /\ UNCHANGED <<db_wallet_addresses, db_transactions, procs, tasks, bus_log,
                   ws_calls, dispHist, scanVars, scanHist, regVars, notifyVars>>

\* a scanner started over a store that holds no wallet address yet
PersistInit ==
    /\ CtlInit
    /\ db_wallet_addresses = <<>>

PersistAdd == \E a \in CtlAddrs : AddWatchedAddress(a, TRUE)

PersistRemove == \E a \in CtlAddrs : RemoveWatchedAddress(a, TRUE)

PersistNext ==
    \/ PersistAdd
    \/ PersistRemove
    \/ ListWatchedAddresses
    \/ LoadWatchedAddresses

SpecPersist == PersistInit /\ [][PersistNext]_vars

\* C31: after any sequence of add_watched and remove_watched calls with a
\* healthy store, the persisted addresses with is_active = true are exactly
\* the in-memory watched set (so a restart resumes with the same watched
\* set), and there is at most one active record per address (the collection
\* is keyed by address under its unique index).
C31_ActiveRecordsAreWatchedSet ==
    ActiveAddresses(db_wallet_addresses) = watched_addresses

(***************************************************************************)
(* Claims about the cursor in memory and in the store.                     *)
(***************************************************************************)
\* C32: after every update_scan_status call the in-memory
\* last_scanned_block equals the persisted last_scanned_block, also when the
\* store upsert fails, so that a restart resumes at the slot the running
\* scanner would use for its next tick.
C32_MemoryCursorIsPersistedCursor ==
    [][scan_status' # scan_status \/ db_scan_status' # db_scan_status =>
          scan_status' = db_scan_status']_vars

(***************************************************************************)
(* Claims about what the store keeps of an envelope.                       *)
(***************************************************************************)
\* C33: every Transaction record the classifier emits for an envelope whose
\* signature was not persisted before is stored, so an envelope with k
\* matching watched instructions leaves k records retrievable from the
\* store.  Stated of envelopes processed once and of a store that answers
\* every insert.
C33_EveryEmittedRecordIsStored ==
    /\ Cardinality(seen) = runs
    /\ \A i \in DOMAIN insert_result : insert_result[i] # "error"
    => \A i \in DOMAIN emitted : emitted[i] \in db_transactions

(***************************************************************************)
(* Claims about the shape of the registry.                                 *)
(***************************************************************************)
\* C34: whenever no registry call is in progress, address_subscribers holds
\* no empty set and every connection id in one of its sets is a key of
\* connections, after any interleaving of the sessions' subscribe,
\* unsubscribe and remove_connection calls.
C34_NoEmptySetNoDanglingId ==
    mgr_lock.writer = 0 =>
        \A a \in DOMAIN address_subscribers :
            /\ address_subscribers[a] # {}
            /\ address_subscribers[a] \subseteq DOMAIN connections

\* C34 witness: connection 1 was removed while it was the only subscriber of
\* both addresses; connection 2 is open and subscribed to nothing, and the
\* index is empty
C34_Witness ==
    /\ mgr_lock.writer = 0
    /\ session_pc[1] = "closed"
    /\ session_arg[1] = SubAddrs
    /\ session_pc[2] = "open"
    /\ DOMAIN connections = {2}
    /\ connections[2].subscribed_addresses = {}
    /\ DOMAIN address_subscribers = {}

(***************************************************************************)
(* The registry's API with add_connection called again for an id that is   *)
(* registered: connections.insert(id, ..) replaces the stored connection   *)
(* by one with an empty subscribed_addresses and does not touch            *)
(* address_subscribers.                                                    *)
(***************************************************************************)
ApiReaddConnection(id) ==
    /\ id \in DOMAIN connections
    /\ connections' = AddConnection(connections, id)
    /\ UNCHANGED address_subscribers
    /\ api_call' = Call("add_connection", id, "", TRUE, {}, <<>>, TRUE, <<>>,
                        api_call.added)
    /\ ApiUnchanged

ReaddNext ==
    \/ ApiNext
    \/ \E id \in 1..MaxConns : ApiReaddConnection(id)

SpecRegistryReadd == RegInit /\ [][ReaddNext]_vars

\* C35: add_connection(id, channel) called for an id that is already
\* registered and holds subscriptions keeps the two registry maps mutually
\* consistent: afterwards id is in address_subscribers[A] if and only if A
\* is in connections[id].subscribed_addresses.
C35_ReaddKeepsMapsConsistent ==
    [][\A id \in 1..MaxConns :
         /\ id \in DOMAIN connections
         /\ ApiReaddConnection(id)
         /\ connections[id].subscribed_addresses # {}
         => \A a \in SubAddrs :
               (a \in DOMAIN address_subscribers' /\ id \in address_subscribers'[a])
               <=> a \in connections'[id].subscribed_addresses]_vars

(***************************************************************************)
(* The frames on a connection's send channel: the sessions with their      *)
(* welcome and error frames, and the dispatch task's broadcast_transaction *)
(* lock by lock.                                                           *)
(***************************************************************************)
WelcomeMalformed == \E c \in 1..MaxConns : RecvMalformed(c)

WelcomeNext ==
    \/ NotifySessions
    \/ WelcomeMalformed
    \/ ObserveAcquire
    \/ NotifyReadIndex
    \/ NotifySend

SpecWelcome == RegInit /\ [][WelcomeNext]_vars

\* C36: on every connection the welcome frame is the first frame enqueued on
\* its send channel: no transaction notification and no error frame is
\* enqueued before it, however the session interleaves with the dispatch
\* task's notify calls.
C36_WelcomeIsFirstFrame ==
    \A c \in 1..MaxConns :
        /\ channel[c] # <<>> => channel[c][1] = "welcome"
        /\ session_pc[c] \in {"new", "add_mgr", "add_conn", "welcome"} => channel[c] = <<>>

\* C36 witness: a notify for a transaction out of A has read its targets,
\* connection 1 among them, and is about to send, while connection 2 is
\* registered and has not been sent its welcome; connection 1 has its
\* welcome and an error frame
C36_Witness ==
    /\ notifying # None
    /\ Unwrap(notifying).pc = "send"
    /\ 1 \in Unwrap(notifying).targets
    /\ channel[1] = <<"welcome", "error">>
    /\ session_pc[2] = "welcome"
    /\ 2 \in DOMAIN connections
    /\ channel[2] = <<>>

====
